---- MODULE Spec2Model ----
(***************************************************************************)
(* A model of the embedded Lisp runtime of blind-jump-gba                  *)
(* (source/script/lisp.cpp): the value pool, the constructors, the         *)
(* mark-and-sweep collector and its roots, the globals tree.               *)
(*                                                                         *)
(* A pool cell is a number in 1..n; 0 stands for nullptr.  The C++ code    *)
(* runs to completion inside one call, so every handler is an operator     *)
(* from a machine state (a record with one field per variable) to the      *)
(* machine state at its return, and every action installs that record.     *)
(***************************************************************************)
EXTENDS Integers, Sequences, FiniteSets, TLC

\* ---- bounds -------------------------------------------------------------
\* pool cells of Spec (init itself takes 7)
PoolSize == 9
\* pool cells of SpecString
StringPoolSize == 10
\* pool cells of SpecRoots
RootsPoolSize == 9
\* pool cells of SpecProtected
ProtectedPoolSize == 9
\* pool cells of SpecGlobals
GlobalsPoolSize == 11
\* operand stack depth the mutator is driven to
MaxStack == 4
\* Protected objects the host keeps alive at once
MaxProtected == 1
\* scratch buffers the host can hand out
ScratchBufferCount == 2
\* bytes of one scratch buffer
ScratchBufferSize == 4
\* longest string handed to make_string
MaxStrLen == 1
\* one-byte symbol names the reader produces besides "*pfrm*"
MaxName == 1
\* string_intern_table_size (lisp.cpp 23), scaled down
InternTableSize == 10
\* length of the longest name a caller hands to intern
MaxNameLen == 2
\* entries of the largest table the host passes to set_constants
MaxConstants == 1
\* cells of the pool under the specification of get, set and unbind
BindingsPoolSize == 13
\* cells of the pool under the specification of `env`
EnvPoolSize == 11

NULL == 0

\* The intern offset of "*pfrm*", the first name init interns.
PfrmName == 0
\* The value of a member the constructor leaves uninitialized
\* (Context::arguments_break_loc_): whatever bits the storage held.
Indeterminate == -1

\* The history of a state no call of funcall or eval has led to.
NoCall == [name |-> "none"]

VARIABLES
    type,               \* Value::hdr_.type_ of every cell
    alive,              \* Value::hdr_.alive_
    mark_bit,           \* Value::hdr_.mark_bit_
    mode_bits,          \* Value::hdr_.mode_bits_
    next_,              \* HeapNode::next_
    car,                \* first compressed reference of the payload
    cdr,                \* second compressed reference of the payload
    val,                \* scalar payload (integer, name, offset, handle)
    code_,              \* Error::code_
    value_pool,         \* head of the free list
    operand_stack,      \* Context::operand_stack_
    nil_, oom_, string_buffer_, globals_tree_,
    lexical_bindings_, macros_, this_,
    protected_values,   \* __protected_values
    protecteds,         \* the Protected objects alive, oldest first
    interns_,           \* Context::interns_, the bytes of the intern arena
    string_intern_pos_, \* Context::string_intern_pos_
    constants_,         \* Context::constants_, constants_count_ its length
    bound,              \* history: the last set or unbind of every name
    arguments_break_loc_, \* Context::arguments_break_loc_
    current_fn_argc_,   \* Context::current_fn_argc_
    interp_entry_count_, \* Context::interp_entry_count_
    call,               \* history: the last call of funcall or eval
    nested_self_calls,  \* history: self tail calls that entered funcall
    reentries,          \* history: the self tail calls that jumped to TOP
    calls,              \* history: the calls of funcall and eval so far
    scratch,            \* the host's scratch buffers
    ret,                \* value returned by the last call
    gc_runs,            \* GC passes made by the last call
    hung,               \* the last call never returns
    ub,                 \* the last call read a cell through the wrong variant
    fatal,              \* the host's fatal handler was called
    net                 \* two consoles in NewLevelIdleState and their link

interp == <<type, alive, mark_bit, mode_bits, next_, car, cdr, val, code_,
          value_pool,
          operand_stack, nil_, oom_, string_buffer_, globals_tree_,
          lexical_bindings_, macros_, this_, protected_values, protecteds,
          interns_, string_intern_pos_, constants_, bound,
          arguments_break_loc_, current_fn_argc_, interp_entry_count_,
          call, nested_self_calls, reentries,
          calls, scratch, ret, gc_runs, hung, ub, fatal>>

vars == <<interp, net>>

\* ---- NewLevelIdleState: the seed handshake of a level transition ----

Peers == 1 .. 2
Other(p) == 3 - p

\* values of rng::critical_state and of Settings::Difficulty
Seeds == 1 .. 2
Difficulties == 0 .. 1

\* milliseconds(250) in units of model time, and the frame times
Period == 2
Deltas == 1 .. Period

required_matching_syncs == 10

\* messages a console has sent and the link has not yet handed over
MaxInFlight == 3

IdleMsg == [type |-> "new_level_idle"]

SyncSeedMsg(seed, d) ==
    [type |-> "new_level_sync_seed", random_state_ |-> seed,
     difficulty_ |-> d]

NoMsg == [type |-> "null"]

\* One console: rng::critical_state, the difficulty setting, the members
\* of its NewLevelIdleState, and history: left (update returned the next
\* state), run (seed messages in a row that matched the local seed),
\* ready_run, ready_seed, synced (run, seed and link state when ready_ was
\* set), last and last_local (the last seed message handled and the local
\* seed it met), spam_unasked and update_unasked (seeds were transmitted
\* by receive, by update, before any NewLevelIdle had been received).
InitPeer(seed, d) ==
    [critical_state |-> seed, difficulty_ |-> d,
     timer_ |-> 0, peer_ready_ |-> FALSE, ready_ |-> FALSE,
     matching_syncs_received_ |-> 0,
     left |-> FALSE, run |-> 0, ready_run |-> 0, ready_seed |-> 0,
     synced |-> FALSE, last |-> NoMsg, last_local |-> 0,
     spam_unasked |-> FALSE, update_unasked |-> FALSE]

\* chan[p] holds the messages on their way to console p, oldest first;
\* the first arrived[p] of them wait in its receive queue.
InitNet ==
    [peer |-> [p \in Peers |-> InitPeer(p, p - 1)],
     chan |-> [p \in Peers |-> <<>>],
     arrived |-> [p \in Peers |-> 0],
     connected |-> TRUE,
     overflow |-> FALSE]

\* The machine state as one record.
State ==
    [type |-> type, alive |-> alive, mark_bit |-> mark_bit,
     mode_bits |-> mode_bits, next_ |-> next_, car |-> car, cdr |-> cdr,
     val |-> val, code_ |-> code_, value_pool |-> value_pool,
     operand_stack |-> operand_stack,
     nil_ |-> nil_, oom_ |-> oom_, string_buffer_ |-> string_buffer_,
     globals_tree_ |-> globals_tree_, lexical_bindings_ |-> lexical_bindings_,
     macros_ |-> macros_, this_ |-> this_,
     protected_values |-> protected_values, protecteds |-> protecteds,
     interns_ |-> interns_, string_intern_pos_ |-> string_intern_pos_,
     constants_ |-> constants_, bound |-> bound,
     arguments_break_loc_ |-> arguments_break_loc_,
     current_fn_argc_ |-> current_fn_argc_,
     interp_entry_count_ |-> interp_entry_count_,
     call |-> call, nested_self_calls |-> nested_self_calls, depth |-> 0,
     reentries |-> reentries,
     calls |-> calls,
     scratch |-> scratch, ret |-> ret, gc_runs |-> gc_runs, hung |-> hung,
     ub |-> ub, fatal |-> fatal]

Install(s) ==
    /\ type' = s.type /\ alive' = s.alive /\ mark_bit' = s.mark_bit
    /\ mode_bits' = s.mode_bits /\ next_' = s.next_ /\ car' = s.car
    /\ cdr' = s.cdr /\ val' = s.val /\ code_' = s.code_
    /\ value_pool' = s.value_pool
    /\ operand_stack' = s.operand_stack /\ nil_' = s.nil_ /\ oom_' = s.oom_
    /\ string_buffer_' = s.string_buffer_ /\ globals_tree_' = s.globals_tree_
    /\ lexical_bindings_' = s.lexical_bindings_ /\ macros_' = s.macros_
    /\ this_' = s.this_ /\ protected_values' = s.protected_values
    /\ protecteds' = s.protecteds /\ scratch' = s.scratch /\ ret' = s.ret
    /\ interns_' = s.interns_
    /\ string_intern_pos_' = s.string_intern_pos_
    /\ constants_' = s.constants_ /\ bound' = s.bound
    /\ arguments_break_loc_' = s.arguments_break_loc_
    /\ current_fn_argc_' = s.current_fn_argc_
    /\ interp_entry_count_' = s.interp_entry_count_
    /\ call' = s.call /\ nested_self_calls' = s.nested_self_calls
    /\ reentries' = s.reentries
    /\ calls' = s.calls
    /\ gc_runs' = s.gc_runs /\ hung' = s.hung /\ ub' = s.ub
    /\ fatal' = s.fatal
    /\ net' = net

InstallInit(s) ==
    /\ type = s.type /\ alive = s.alive /\ mark_bit = s.mark_bit
    /\ mode_bits = s.mode_bits /\ next_ = s.next_ /\ car = s.car
    /\ cdr = s.cdr /\ val = s.val /\ code_ = s.code_
    /\ value_pool = s.value_pool
    /\ operand_stack = s.operand_stack /\ nil_ = s.nil_ /\ oom_ = s.oom_
    /\ string_buffer_ = s.string_buffer_ /\ globals_tree_ = s.globals_tree_
    /\ lexical_bindings_ = s.lexical_bindings_ /\ macros_ = s.macros_
    /\ this_ = s.this_ /\ protected_values = s.protected_values
    /\ protecteds = s.protecteds /\ scratch = s.scratch /\ ret = s.ret
    /\ interns_ = s.interns_
    /\ string_intern_pos_ = s.string_intern_pos_
    /\ constants_ = s.constants_ /\ bound = s.bound
    /\ arguments_break_loc_ = s.arguments_break_loc_
    /\ current_fn_argc_ = s.current_fn_argc_
    /\ interp_entry_count_ = s.interp_entry_count_
    /\ call = s.call /\ nested_self_calls = s.nested_self_calls
    /\ reentries = s.reentries
    /\ calls = s.calls
    /\ gc_runs = s.gc_runs /\ hung = s.hung /\ ub = s.ub
    /\ fatal = s.fatal
    /\ net = InitNet

Cells == DOMAIN type
CellsOf(s) == DOMAIN s.type

\* A call that does not return: it never ends, it has read a cell through the
\* wrong variant, or it has ended in the host's fatal handler.
Stuck(s) == s.hung \/ (s.ub \/ s.fatal)

\* Entry points of the handlers (each is defined below as <name>_impl).
RECURSIVE Invoke(_, _)
alloc_value(a1) == Invoke("alloc_value", <<a1>>)
globals_tree_insert(a1, a2, a3) == Invoke("globals_tree_insert", <<a1, a2, a3>>)
globals_tree_find(a1, a2) == Invoke("globals_tree_find", <<a1, a2>>)
globals_tree_erase(a1, a2) == Invoke("globals_tree_erase", <<a1, a2>>)
set_var(a1, a2, a3) == Invoke("set_var", <<a1, a2, a3>>)
get_var(a1, a2) == Invoke("get_var", <<a1, a2>>)
eval(a1, a2) == Invoke("eval", <<a1, a2>>)
funcall(a1, a2, a3) == Invoke("funcall", <<a1, a2, a3>>)
vm_execute(a1, a2, a3) == Invoke("vm_execute", <<a1, a2, a3>>)
dostring(a1, a2) == Invoke("dostring", <<a1, a2>>)
read(a1, a2, a3) == Invoke("read", <<a1, a2, a3>>)
load_module(a1, a2) == Invoke("load_module", <<a1, a2>>)
load_module_instructions(a1, a2) ==
    Invoke("load_module_instructions", <<a1, a2>>)
make_string(a1, a2) == Invoke("make_string", <<a1, a2>>)
make_symbol(a1, a2, a3) == Invoke("make_symbol", <<a1, a2, a3>>)
make_databuffer(a1) == Invoke("make_databuffer", <<a1>>)
env(a1) == Invoke("env", <<a1>>)
get_env(a1) == Invoke("get_env", <<a1>>)
equal(a1, a2) == Invoke("equal", <<a1, a2>>)
InitState(a1) == Invoke("InitState", <<a1>>)
gc_builtin(a1) == Invoke("gc_builtin", <<a1>>)
lexical_frame_push(a1) == Invoke("lexical_frame_push", <<a1>>)
intern(a1, a2) == Invoke("intern", <<a1, a2>>)
intern_to_symbol(a1, a2) == Invoke("intern_to_symbol", <<a1, a2>>)

\* ---- value pool (lisp.cpp 55-89) ----------------------------------------
RECURSIVE value_pool_init_loop(_, _, _)
value_pool_init_loop(i, n, acc) ==
    IF i > n THEN acc
    ELSE value_pool_init_loop(i + 1, n,
            [acc EXCEPT !.next_[i] = acc.value_pool, !.value_pool = i])

value_pool_init(n) ==
    value_pool_init_loop(1, n,
        [type |-> [c \in 1..n |-> "heap_node"],
         alive |-> [c \in 1..n |-> FALSE],
         mark_bit |-> [c \in 1..n |-> FALSE],
         mode_bits |-> [c \in 1..n |-> "none"],
         next_ |-> [c \in 1..n |-> NULL],
         car |-> [c \in 1..n |-> NULL],
         cdr |-> [c \in 1..n |-> NULL],
         val |-> [c \in 1..n |-> 0],
         code_ |-> [c \in 1..n |-> "none"],
         value_pool |-> NULL])

value_pool_alloc_keeping_head(s) ==
    IF s.value_pool # NULL
    THEN [s |-> s, v |-> s.value_pool]
    ELSE [s |-> s, v |-> NULL]

\* Returns the state and the popped cell (NULL when the list is empty).
value_pool_alloc(s) ==
    IF s.value_pool # NULL
    THEN [s |-> [s EXCEPT !.value_pool = s.next_[s.value_pool]],
          v |-> s.value_pool]
    ELSE [s |-> s, v |-> NULL]

value_pool_free_dropping_list(s, value) ==
    [s EXCEPT !.type[value] = "heap_node", !.alive[value] = FALSE,
              !.mark_bit[value] = FALSE, !.mode_bits[value] = "none",
              !.car[value] = NULL, !.cdr[value] = NULL, !.val[value] = 0,
              !.code_[value] = "none",
              !.next_[value] = NULL, !.value_pool = value]

\* The payload of a freed cell is overlaid by next_; no handler of the model
\* reads it before the cell is allocated again, so it is cleared here.
value_pool_free(s, value) ==
    [s EXCEPT !.type[value] = "heap_node", !.alive[value] = FALSE,
              !.mark_bit[value] = FALSE, !.mode_bits[value] = "none",
              !.car[value] = NULL, !.cdr[value] = NULL, !.val[value] = 0,
              !.code_[value] = "none",
              !.next_[value] = s.value_pool, !.value_pool = value]

\* The cells on the free list, in list order.  A list that does not end
\* within n links is cut (it would be cyclic).
RECURSIVE FreeListFrom(_, _, _)
FreeListFrom(s, c, fuel) ==
    IF c = NULL \/ fuel = 0 THEN <<>>
    ELSE <<c>> \o FreeListFrom(s, s.next_[c], fuel - 1)

FreeList(s) == FreeListFrom(s, s.value_pool, Cardinality(CellsOf(s)) + 1)
SeqRange(q) == {q[i] : i \in DOMAIN q}
FreeCells(s) == SeqRange(FreeList(s))
LiveCells(s) == {c \in CellsOf(s) : s.alive[c]}

\* ---- garbage collector (lisp.cpp 1314-1513) -----------------------------
\* gc_mark_value recurses on the C++ stack and loops along the cdr chain.
\* The heap does not change while it runs, so a call that re-enters the cell
\* of one of its callers with the same mark bits, or a loop that returns to
\* a cell with the same mark bits, repeats forever: the state is then
\* reported as hung.
RECURSIVE gc_mark_value(_, _, _)
RECURSIVE gc_mark_spine(_, _, _, _)

gc_mark_spine(s, current, anc, seen) ==
    LET Advance(s1, nxt) ==
            IF s1.hung THEN s1
            ELSE gc_mark_spine([s1 EXCEPT !.mark_bit[nxt] = TRUE], nxt, anc,
                               seen \cup {<<current, s.mark_bit>>})
    IN  IF s.hung THEN s
        ELSE IF s.type[s.cdr[current]] = "cons"
        THEN IF <<current, s.mark_bit>> \in seen
             THEN [s EXCEPT !.hung = TRUE]
             ELSE Advance(gc_mark_value(s, s.car[current], anc),
                          s.cdr[current])
        ELSE gc_mark_value(gc_mark_value(s, s.car[current], anc),
                           s.cdr[current], anc)

gc_mark_value(s, value, anc) ==
    LET a2 == anc \cup {<<value, s.mark_bit>>}
        Mark(body) ==
            IF body.hung THEN body ELSE [body EXCEPT !.mark_bit[value] = TRUE]
    IN  IF s.hung \/ s.mark_bit[value] THEN s
        ELSE IF <<value, s.mark_bit>> \in anc THEN [s EXCEPT !.hung = TRUE]
        ELSE Mark(
               CASE s.type[value] = "function"
                      /\ s.mode_bits[value] \in
                           {"lisp_function", "lisp_bytecode_function"} ->
                        gc_mark_value(gc_mark_value(s, s.car[value], a2),
                                      s.cdr[value], a2)
                 [] s.type[value] = "string" ->
                        gc_mark_value(s, s.car[value], a2)
                 [] s.type[value] = "error" ->
                        gc_mark_value(s, s.car[value], a2)
                 [] s.type[value] = "cons" ->
                        IF s.type[s.cdr[value]] = "cons"
                        THEN gc_mark_spine(s, value, a2, {})
                        ELSE gc_mark_value(gc_mark_value(s, s.car[value], a2),
                                           s.cdr[value], a2)
                 [] OTHER -> s)

\* ---- globals tree accessors (lisp.cpp 213-228) --------------------------
IsTreeNode(s, tree) ==
    /\ s.type[tree] = "cons"
    /\ s.type[s.cdr[tree]] = "cons"

left_subtree(s, tree) == s.car[s.cdr[tree]]
right_subtree(s, tree) == s.cdr[s.cdr[tree]]
set_right_subtree(s, tree, value) == [s EXCEPT !.cdr[s.cdr[tree]] = value]

\* lisp.cpp 250-253: the rightmost node of the left subtree, or the node
\* whose right link is the thread back to current.  NULL: a wrong-variant
\* read; -1: the loop never ends.
RECURSIVE morris_predecessor(_, _, _, _)
morris_predecessor(s, prev, current, seen) ==
    IF ~IsTreeNode(s, prev) THEN NULL
    ELSE IF prev \in seen THEN -1
    ELSE IF right_subtree(s, prev) # s.nil_ /\ right_subtree(s, prev) # current
    THEN morris_predecessor(s, right_subtree(s, prev), current,
                            seen \cup {prev})
    ELSE prev

\* lisp.cpp 257: the thread is left in place
traverse_keep_thread(s, prev) == s

\* lisp.cpp 257: set_right_subtree(prev, get_nil()) removes the thread
traverse_unthread(s, prev) == set_right_subtree(s, prev, s.nil_)

\* lisp.cpp 233-265: callback(s, kvp, node) is the visitor.  The loop is
\* deterministic in (current, heap): coming back to a pair already seen means
\* it never ends.
globals_tree_traverse(s, root, callback(_, _, _)) ==
    LET RECURSIVE traverse_loop(_, _, _)
        traverse_loop(s0, current, seen) ==
            LET seen2 == seen \cup {<<current, [s0 EXCEPT !.gc_runs = 0]>>}
                \* lisp.cpp 246, 259: after the callback, on to the right
                \* subtree
                Right(s1) ==
                    IF Stuck(s1) THEN s1
                    ELSE IF ~IsTreeNode(s1, current)
                    THEN [s1 EXCEPT !.ub = TRUE]
                    ELSE traverse_loop(s1, right_subtree(s1, current), seen2)
                Visit(s2) == Right(callback(s2, s2.car[current], current))
                \* lisp.cpp 254-261
                Thread(prev) ==
                    IF prev = NULL THEN [s0 EXCEPT !.ub = TRUE]
                    ELSE IF prev = -1 THEN [s0 EXCEPT !.hung = TRUE]
                    ELSE IF right_subtree(s0, prev) = s0.nil_
                    THEN traverse_loop(set_right_subtree(s0, prev, current),
                                       left_subtree(s0, current), seen2)
                    ELSE Visit(traverse_unthread(s0, prev))
            IN  IF Stuck(s0) \/ current = s0.nil_ THEN s0
                ELSE IF ~IsTreeNode(s0, current) THEN [s0 EXCEPT !.ub = TRUE]
                ELSE IF <<current, [s0 EXCEPT !.gc_runs = 0]>> \in seen
                THEN [s0 EXCEPT !.hung = TRUE]
                ELSE IF left_subtree(s0, current) = s0.nil_ THEN Visit(s0)
                ELSE Thread(morris_predecessor(s0, left_subtree(s0, current),
                                               current, {}))
    IN  IF root = s.nil_ THEN s ELSE traverse_loop(s, root, {})

\* ---- Protected (lisp.cpp 1369-1398) -------------------------------------
\* A Protected object is a record of the sequence protecteds; its address is
\* its index.  Automatic storage: the newest object is destroyed first.
\* The constructor assigns `this` to its local copy plist of
\* __protected_values, never to __protected_values itself.
ProtectedBase_ctor(s, v) ==
    LET this == Len(s.protecteds) + 1
        plist == s.protected_values
        linked == IF plist # NULL
                  THEN [s.protecteds EXCEPT ![plist].next_ = this]
                  ELSE s.protecteds
    IN  [s EXCEPT !.protecteds =
            Append(linked, [val_ |-> v, next_ |-> NULL, prev_ |-> plist])]

ProtectedBase_dtor(s) ==
    LET this == Len(s.protecteds)
        p == s.protecteds[this]
        a == IF p.next_ # NULL
             THEN [s.protecteds EXCEPT ![p.next_].prev_ = p.prev_]
             ELSE s.protecteds
        b == IF p.prev_ # NULL
             THEN [a EXCEPT ![p.prev_].next_ = p.next_]
             ELSE a
    IN  [s EXCEPT !.protecteds = SubSeq(b, 1, this - 1)]

\* Protected::set
Protected_set(s, p, v) == [s EXCEPT !.protecteds[p].val_ = v]

\* lisp.cpp 1422-1426
RECURSIVE gc_mark_protected(_, _, _)
gc_mark_protected(s, p_list, fuel) ==
    IF p_list = NULL \/ s.hung THEN s
    ELSE IF fuel = 0 THEN [s EXCEPT !.hung = TRUE]
    ELSE gc_mark_protected(gc_mark_value(s, s.protecteds[p_list].val_, {}),
                           s.protecteds[p_list].next_, fuel - 1)

RECURSIVE gc_mark_stack_loop(_, _)
gc_mark_stack_loop(s, i) ==
    IF i > Len(s.operand_stack) \/ s.hung THEN s
    ELSE gc_mark_stack_loop(gc_mark_value(s, s.operand_stack[i], {}), i + 1)

\* A mark phase that leaves the operand stack out.
gc_mark_stack_skipped(s) == s

\* lisp.cpp 1409-1411
gc_mark_stack(s) == gc_mark_stack_loop(s, 1)

\* lisp.cpp 1414-1418: the visitor of gc_mark
gc_mark_visitor(s, kvp, node) ==
    gc_mark_value([s EXCEPT !.mark_bit[node] = TRUE,
                            !.mark_bit[s.cdr[node]] = TRUE], kvp, {})

\* lisp.cpp 1413-1417
gc_mark_globals(s) ==
    IF s.hung THEN s
    ELSE globals_tree_traverse(s, s.globals_tree_, gc_mark_visitor)

\* lisp.cpp 1420
gc_mark_this(s) == IF s.hung \/ s.ub THEN s ELSE gc_mark_value(s, s.this_, {})

\* lisp.cpp 1422-1426
gc_mark_protected_list(s) ==
    IF s.hung \/ s.ub THEN s
    ELSE gc_mark_protected(s, s.protected_values, Len(s.protecteds) + 1)

\* A mark phase that leaves the OOM sentinel out.
gc_mark_without_oom(s) ==
    gc_mark_protected_list(
        gc_mark_this(
            gc_mark_globals(
                gc_mark_stack(
                    gc_mark_value(
                        gc_mark_value(
                            gc_mark_value(s, s.nil_, {}),
                            s.lexical_bindings_, {}),
                        s.macros_, {})))))

\* lisp.cpp 1401-1427
gc_mark(s) ==
    gc_mark_protected_list(
        gc_mark_this(
            gc_mark_globals(
                gc_mark_stack(
                    gc_mark_value(
                        gc_mark_value(
                            gc_mark_value(
                                gc_mark_value(s, s.nil_, {}),
                                s.oom_, {}),
                            s.lexical_bindings_, {}),
                        s.macros_, {})))))

\* A finalizer table whose data-buffer entry releases nothing.
invoke_finalizer_empty(s, value) == s

\* DataBuffer::finalizer (lisp.cpp 1463-1467) releases the scratch buffer;
\* every other finalizer is empty.
invoke_finalizer(s, value) ==
    IF s.type[value] = "data_buffer" /\ s.val[value] \in DOMAIN s.scratch
    THEN [s EXCEPT !.scratch[s.val[value]] =
                       [held |-> FALSE,
                        data |-> [i \in 1..ScratchBufferSize |-> 0]]]
    ELSE s

RECURSIVE gc_sweep_loop(_, _, _)
gc_sweep_loop(s, i, collect_count) ==
    IF i > Cardinality(CellsOf(s)) THEN [s |-> s, v |-> collect_count]
    ELSE IF s.alive[i]
    THEN IF s.mark_bit[i]
         THEN gc_sweep_loop([s EXCEPT !.mark_bit[i] = FALSE], i + 1,
                            collect_count)
         ELSE gc_sweep_loop(value_pool_free(invoke_finalizer(s, i), i),
                            i + 1, collect_count + 1)
    ELSE gc_sweep_loop(s, i + 1, collect_count)

gc_sweep(s) ==
    gc_sweep_loop(IF ~s.mark_bit[s.string_buffer_]
                  THEN [s EXCEPT !.string_buffer_ = s.nil_] ELSE s,
                  1, 0)

\* Returns the state and the number of collected cells.  A mark phase that
\* never ends, or that reads through a wrong variant, never reaches the sweep.
run_gc(s) ==
    LET Sweep(m) ==
            IF m.hung \/ m.ub THEN [s |-> m, v |-> 0] ELSE gc_sweep(m)
        Count(r) ==
            IF Stuck(r.s) THEN r
            ELSE [r EXCEPT !.s.gc_runs = r.s.gc_runs + 1]
    IN  Count(Sweep(gc_mark(s)))

\* ---- allocation and constructors (lisp.cpp 539-789) ---------------------

\* next_ shares its storage with the payload the caller writes next.
init_val(s, v) ==
    [s EXCEPT !.mark_bit[v] = FALSE, !.alive[v] = TRUE, !.next_[v] = NULL]

\* Returns the state and the new cell, NULL when none could be had.
alloc_value_impl(s) ==
    LET Retry(g, b) ==
            IF Stuck(g) THEN [s |-> g, v |-> NULL]
            ELSE IF b.v # NULL THEN [s |-> init_val(b.s, b.v), v |-> b.v]
            ELSE [s |-> g, v |-> NULL]
        Collect(g) == Retry(g, value_pool_alloc(g))
        First(a) ==
            IF a.v # NULL THEN [s |-> init_val(a.s, a.v), v |-> a.v]
            ELSE Collect(run_gc(s).s)
    IN  First(value_pool_alloc(s))

\* The shape shared by the constructors: a cell of the given variant and
\* payload, or the OOM sentinel.
Construct(s, ty, mode, a, d, x, code) ==
    LET Fill(r) ==
            IF Stuck(r.s) THEN [s |-> r.s, v |-> NULL]
            ELSE IF r.v # NULL
            THEN [s |-> [r.s EXCEPT !.type[r.v] = ty,
                                    !.mode_bits[r.v] = mode,
                                    !.car[r.v] = a, !.cdr[r.v] = d,
                                    !.val[r.v] = x, !.code_[r.v] = code],
                  v |-> r.v]
            ELSE [s |-> r.s, v |-> r.s.oom_]
    IN  Fill(alloc_value(s))

make_function(s, impl) == 
    Construct(s, "function", "cpp_function", NULL, NULL, impl, "none")

make_lisp_function(s, impl) ==
    Construct(s, "function", "lisp_function", impl, s.lexical_bindings_, 0,
              "none")

make_bytecode_function(s, bytecode) ==
    Construct(s, "function", "lisp_bytecode_function", bytecode,
              s.lexical_bindings_, 0, "none")

make_cons(s, a, d) == Construct(s, "cons", "none", a, d, 0, "none")

make_integer(s, value) == 
    Construct(s, "integer", "none", NULL, NULL, value, "none")

make_error(s, error_code, context) ==
    Construct(s, "error", "none", context, NULL, 0, error_code)

\* ---- the intern arena (lisp.cpp 448-480) ---------------------------------
\* A C string is a sequence of nonzero bytes; NUL is 0. A const char* is an
\* address: 0..InternTableSize-1 are the bytes of the arena, the addresses
\* above it are strings owned by the callers (literals of the program, the
\* reader's buffer, the names of the host's constants), one per string.
Bytes == 1..(MaxName + 1)
Names == UNION {[1..n -> Bytes] : n \in 0..MaxNameLen}

RECURSIVE NameCode(_)
NameCode(str) ==
    IF str = <<>> THEN 0
    ELSE NameCode(Tail(str)) * (MaxName + 2) + Head(str)

HostPtr(str) == InternTableSize + NameCode(str)
InArena(ptr) == ptr < InternTableSize

\* The string that starts at offset i of the arena.
RECURSIVE ArenaStr(_, _)
ArenaStr(interns, i) ==
    IF i >= Len(interns) \/ interns[i + 1] = 0 THEN <<>>
    ELSE <<interns[i + 1]>> \o ArenaStr(interns, i + 1)

c_str(s, ptr) ==
    IF InArena(ptr) THEN ArenaStr(s.interns_, ptr)
    ELSE CHOOSE str \in Names : HostPtr(str) = ptr

str_len(s, ptr) == Len(c_str(s, ptr))
str_cmp(s, a, b) == IF c_str(s, a) = c_str(s, b) THEN 0 ELSE 1

\* lisp.cpp 460-471: the offset of the entry equal to string, -1 when the
\* loop ends without one.
RECURSIVE intern_search(_, _, _)
intern_search(s, i, string) ==
    IF i >= s.string_intern_pos_ THEN -1
    ELSE IF str_cmp(s, i, string) = 0 THEN i
    ELSE intern_search(s, i + str_len(s, i) + 1, string)

\* lisp.cpp 473-479
intern_append(s, string) ==
    LET pos == s.string_intern_pos_
        len == str_len(s, string)
        str == c_str(s, string)
    IN  [s |-> [s EXCEPT
                  !.interns_ = [k \in DOMAIN @ |->
                                  IF k > pos /\ k <= pos + len
                                  THEN str[k - pos]
                                  ELSE IF k = pos + len + 1 THEN 0 ELSE @[k]],
                  !.string_intern_pos_ = pos + len + 1],
         v |-> pos]

\* lisp.cpp 448-480: the test for room comes before the search.
intern_impl(s, string) ==
    IF str_len(s, string) + 1 > InternTableSize - s.string_intern_pos_
    THEN [s |-> [s EXCEPT !.fatal = TRUE], v |-> NULL]
    ELSE IF intern_search(s, 0, string) >= 0
    THEN [s |-> s, v |-> intern_search(s, 0, string)]
    ELSE intern_append(s, string)

\* lisp.cpp 657-674: the name of a symbol is the pointer intern returns, or
\* in stable_pointer mode the pointer the caller passed.
make_symbol_impl(s, name, mode) ==
    LET Name(i, r) ==
            IF Stuck(i.s) THEN [s |-> i.s, v |-> NULL]
            ELSE [s |-> [i.s EXCEPT !.val[r.v] = i.v], v |-> r.v]
        Fill(r) ==
            IF Stuck(r.s) \/ r.v = r.s.oom_ \/ mode = "stable_pointer" THEN r
            ELSE Name(intern(r.s, name), r)
    IN  Fill(Construct(s, "symbol", "none", NULL, NULL, name, "none"))

\* lisp.cpp 677-685
intern_to_symbol_impl(s, already_interned_str) ==
    Construct(s, "symbol", "none", NULL, NULL, already_interned_str, "none")

make_userdata(s, obj) == 
    Construct(s, "user_data", "none", NULL, NULL, obj, "none")

\* The host's scratch buffer allocator.
scratch_buffers_remaining(s) ==
    Cardinality({b \in DOMAIN s.scratch : ~s.scratch[b].held})

make_scratch_buffer(s) ==
    CHOOSE b \in DOMAIN s.scratch :
        /\ ~s.scratch[b].held
        /\ \A o \in DOMAIN s.scratch : ~s.scratch[o].held => b <= o

make_databuffer_impl(s) ==
    LET Own(r, b) ==
            [s |-> [r.s EXCEPT !.type[r.v] = "data_buffer", !.val[r.v] = b,
                               !.scratch[b].held = TRUE],
             v |-> r.v]
        Fill(r) ==
            IF Stuck(r.s) THEN [s |-> r.s, v |-> NULL]
            ELSE IF r.v = NULL THEN [s |-> r.s, v |-> r.s.oom_]
            ELSE IF scratch_buffers_remaining(r.s) = 0
            THEN [s |-> [r.s EXCEPT !.fatal = TRUE], v |-> NULL]
            ELSE Own(r, make_scratch_buffer(r.s))
        Alloc(g) ==
            IF Stuck(g) THEN [s |-> g, v |-> NULL] ELSE Fill(alloc_value(g))
    IN  Alloc(IF scratch_buffers_remaining(s) = 0 THEN run_gc(s).s ELSE s)

\* lisp.cpp 729-735: the NUL bytes at the end of the buffer, byte 0 excluded.
RECURSIVE TrailingNuls(_, _)
TrailingNuls(data, i) ==
    IF i > 1 /\ data[i] = 0 THEN 1 + TrailingNuls(data, i - 1) ELSE 0

\* A string of len bytes, none of them NUL, written at C offset off.
WriteString(data, off, len) ==
    [i \in DOMAIN data |-> IF i - 1 >= off /\ i - 1 < off + len THEN 1
                           ELSE data[i]]

\* The buffer of a data-buffer cell.  A cell that is not a data-buffer any
\* more has no buffer to read.
HasBuffer(s, c) == s.type[c] = "data_buffer" /\ s.val[c] \in DOMAIN s.scratch

make_string_impl(s, len) ==
    LET buffer == s.string_buffer_
        \* lisp.cpp 744-760
        Pack(s1, free) ==
            Construct([s1 EXCEPT !.scratch[s1.val[buffer]].data =
                           WriteString(@, (ScratchBufferSize - free) + 1,
                                       len)],
                      "string", "none", buffer, NULL,
                      (ScratchBufferSize - free) + 1, "none")
        \* lisp.cpp 762-785
        Finish(r) ==
            IF Stuck(r.s) THEN r
            ELSE [s |-> ProtectedBase_dtor(r.s), v |-> r.v]
        Fresh(d) ==
            IF Stuck(d.s) THEN d
            ELSE IF d.v = d.s.oom_ THEN [s |-> d.s, v |-> d.s.oom_]
            ELSE Finish(
                   Construct(
                     [ProtectedBase_ctor(d.s, d.v) EXCEPT
                        !.string_buffer_ = d.v,
                        !.scratch[d.s.val[d.v]].data =
                           WriteString([i \in 1..ScratchBufferSize |-> 0],
                                       0, len)],
                     "string", "none", d.v, NULL, 0, "none"))
        \* lisp.cpp 726-742
        Pick(free) ==
            IF buffer # s.nil_ /\ free > len + 1
            THEN Pack(s, free)
            ELSE Fresh(make_databuffer(
                           IF buffer # s.nil_
                           THEN [s EXCEPT !.string_buffer_ = s.nil_]
                           ELSE s))
    IN  IF buffer # s.nil_ /\ ~HasBuffer(s, buffer)
        THEN [s |-> [s EXCEPT !.ub = TRUE], v |-> NULL]
        ELSE Pick(IF buffer # s.nil_
                  THEN TrailingNuls(s.scratch[s.val[buffer]].data,
                                    ScratchBufferSize)
                  ELSE 0)

\* lisp.cpp 374-382
set_constants(s, constants) == [s EXCEPT !.constants_ = constants]

\* ---- operand stack and lexical frames (lisp.cpp 830-893) ----------------
pop_op(s) ==
    [s EXCEPT !.operand_stack = SubSeq(@, 1, Len(@) - 1)]

push_op(s, operand) == [s EXCEPT !.operand_stack = Append(@, operand)]

get_op0(s) == s.operand_stack[Len(s.operand_stack)]
get_op1(s) == s.operand_stack[Len(s.operand_stack) - 1]

lexical_frame_push_impl(s) ==
    LET Link(r) ==
            IF Stuck(r.s) THEN r.s ELSE [r.s EXCEPT !.lexical_bindings_ = r.v]
    IN  Link(make_cons(s, s.nil_, s.lexical_bindings_))

lexical_frame_pop(s) ==
    IF s.type[s.lexical_bindings_] # "cons" THEN [s EXCEPT !.ub = TRUE]
    ELSE [s EXCEPT !.lexical_bindings_ = s.cdr[s.lexical_bindings_]]

\* ---- globals tree insert and set_var (lisp.cpp 142-207, 1074-1100) -------
\* The address of the Protected object constructed last.
LastProtected(s) == Len(s.protecteds)

\* A node whose key the scan can read: ((symbol . value) . (left . right)).
IsKeyedNode(s, n) ==
    /\ IsTreeNode(s, n)
    /\ s.type[s.car[n]] = "cons"
    /\ s.type[s.car[s.car[n]]] = "symbol"

\* lisp.cpp 190-205 (and 148-155 for the empty tree): the children pair is
\* pushed on the operand stack, the new kvp is read back from its Protected.
globals_tree_attach(s, new_kvp, prev, insert_left) ==
    LET Link(s2, new_tree) ==
            IF prev = NULL THEN [s2 EXCEPT !.globals_tree_ = new_tree]
            ELSE IF ~IsTreeNode(s2, s2.protecteds[prev].val_)
            THEN [s2 EXCEPT !.ub = TRUE]
            ELSE IF insert_left
            THEN [s2 EXCEPT !.car[s2.cdr[s2.protecteds[prev].val_]] =
                                new_tree]
            ELSE [s2 EXCEPT !.cdr[s2.cdr[s2.protecteds[prev].val_]] =
                                new_tree]
        Pop(t) == IF Stuck(t.s) THEN t.s ELSE Link(pop_op(t.s), t.v)
        Node(s1) ==
            IF Stuck(s1) THEN s1
            ELSE Pop(make_cons(s1, s1.protecteds[new_kvp].val_, get_op0(s1)))
        Push(c) == Node(IF Stuck(c.s) THEN c.s ELSE push_op(c.s, c.v))
    IN  Push(make_cons(s, s.nil_, s.nil_))

\* lisp.cpp 166-188.  current and prev are the addresses of the two Protected
\* locals.  Returns the state, whether the key was found (and overwritten),
\* and the side to insert at.
RECURSIVE globals_tree_scan(_, _, _, _, _, _, _)
globals_tree_scan(s, current, prev, insert_left, key, value, seen) ==
    LET cur == s.protecteds[current].val_
        current_key == s.car[s.car[cur]]
        Descend(s1, next, left) ==
            globals_tree_scan(Protected_set(s1, current, next), current, prev,
                              left, key, value, seen \cup {cur})
    IN  IF cur = s.nil_
        THEN [s |-> s, found |-> FALSE, insert_left |-> insert_left]
        ELSE IF ~IsKeyedNode(s, cur)
        THEN [s |-> [s EXCEPT !.ub = TRUE], found |-> FALSE,
              insert_left |-> insert_left]
        ELSE IF cur \in seen
        THEN [s |-> [s EXCEPT !.hung = TRUE], found |-> FALSE,
              insert_left |-> insert_left]
        ELSE IF s.val[current_key] = s.val[key]
        THEN [s |-> [s EXCEPT !.cdr[s.car[cur]] = value], found |-> TRUE,
              insert_left |-> insert_left]
        ELSE IF s.val[current_key] < s.val[key]
        THEN Descend(Protected_set(s, prev, cur), s.car[s.cdr[cur]], TRUE)
        ELSE Descend(Protected_set(s, prev, cur), s.cdr[s.cdr[cur]], FALSE)

globals_tree_insert_impl(s, key, value) ==
    LET Leave(a, n) ==
            IF Stuck(a) THEN a
            ELSE IF n = 1 THEN ProtectedBase_dtor(a)
            ELSE ProtectedBase_dtor(ProtectedBase_dtor(ProtectedBase_dtor(a)))
        \* lisp.cpp 190-205; new_kvp, current and prev are the addresses of
        \* the three Protected locals
        Attach(r, new_kvp) ==
            Leave(IF Stuck(r.s) \/ r.found THEN r.s
                  ELSE globals_tree_attach(r.s, new_kvp, new_kvp + 2,
                                           r.insert_left),
                  3)
        \* lisp.cpp 162-188
        Scan(s3, new_kvp) ==
            Attach(globals_tree_scan(s3, new_kvp + 1, new_kvp + 2, TRUE, key,
                                     value, {}),
                   new_kvp)
        Insert(s1) ==
            IF s1.globals_tree_ = s1.nil_
            THEN Leave(globals_tree_attach(s1, LastProtected(s1), NULL, TRUE),
                       1)
            ELSE Scan(ProtectedBase_ctor(
                          ProtectedBase_ctor(s1, s1.globals_tree_),
                          s1.globals_tree_),
                      LastProtected(s1))
        Protect(k) ==
            IF Stuck(k.s) THEN k.s ELSE Insert(ProtectedBase_ctor(k.s, k.v))
    IN  Protect(make_cons(s, key, value))

\* lisp.cpp 298-300: the visitor of globals_tree_erase
reattach_child(s, kvp, node) ==
    IF s.type[kvp] = "cons"
    THEN globals_tree_insert(s, s.car[kvp], s.cdr[kvp])
    ELSE [s EXCEPT !.ub = TRUE]

\* lisp.cpp 284-312: the node current holds the key.  erased is the address
\* of the Protected local.
globals_tree_erase_node(s, current, prev, erase_left) ==
    LET erased == LastProtected(s) + 1
        RightChild(s3) ==
            IF Stuck(s3) THEN s3
            ELSE IF ~IsTreeNode(s3, s3.protecteds[erased].val_)
            THEN [s3 EXCEPT !.ub = TRUE]
            ELSE ProtectedBase_dtor(
                   globals_tree_traverse(
                     s3, right_subtree(s3, s3.protecteds[erased].val_),
                     reattach_child))
        LeftChild(s2) ==
            IF Stuck(s2) THEN s2
            ELSE IF ~IsTreeNode(s2, s2.protecteds[erased].val_)
            THEN [s2 EXCEPT !.ub = TRUE]
            ELSE RightChild(
                   globals_tree_traverse(
                     s2, left_subtree(s2, s2.protecteds[erased].val_),
                     reattach_child))
        Detach(s1) ==
            IF current = prev
            THEN LeftChild([s1 EXCEPT !.globals_tree_ = s1.nil_])
            ELSE IF ~IsTreeNode(s1, prev) THEN [s1 EXCEPT !.ub = TRUE]
            ELSE IF erase_left
            THEN LeftChild([s1 EXCEPT !.car[s1.cdr[prev]] = s1.nil_])
            ELSE LeftChild([s1 EXCEPT !.cdr[s1.cdr[prev]] = s1.nil_])
    IN  Detach(ProtectedBase_ctor(s, current))

\* lisp.cpp 280-324
RECURSIVE globals_tree_erase_scan(_, _, _, _, _, _)
globals_tree_erase_scan(s, current, prev, erase_left, key, seen) ==
    IF current = s.nil_ THEN s
    ELSE IF ~IsKeyedNode(s, current) \/ s.type[key] # "symbol"
    THEN [s EXCEPT !.ub = TRUE]
    ELSE IF current \in seen THEN [s EXCEPT !.hung = TRUE]
    ELSE IF s.val[s.car[s.car[current]]] = s.val[key]
    THEN globals_tree_erase_node(s, current, prev, erase_left)
    ELSE IF s.val[s.car[s.car[current]]] < s.val[key]
    THEN globals_tree_erase_scan(s, s.car[s.cdr[current]], current, TRUE,
                                 key, seen \cup {current})
    ELSE globals_tree_erase_scan(s, s.cdr[s.cdr[current]], current, FALSE,
                                 key, seen \cup {current})

\* lisp.cpp 268-325
globals_tree_erase_impl(s, key) ==
    IF s.globals_tree_ = s.nil_ THEN s
    ELSE globals_tree_erase_scan(s, s.globals_tree_, s.globals_tree_, TRUE,
                                 key, {})

\* lisp.cpp 337-350: the value bound to key, NULL when the loop ends without
\* one, -1 for a wrong-variant read, -2 for a loop that never ends.
RECURSIVE globals_tree_find_scan(_, _, _, _)
globals_tree_find_scan(s, current, key, seen) ==
    IF current = s.nil_ THEN NULL
    ELSE IF ~IsKeyedNode(s, current) \/ s.type[key] # "symbol" THEN -1
    ELSE IF current \in seen THEN -2
    ELSE IF s.val[s.car[s.car[current]]] = s.val[key]
    THEN s.cdr[s.car[current]]
    ELSE IF s.val[s.car[s.car[current]]] < s.val[key]
    THEN globals_tree_find_scan(s, s.car[s.cdr[current]], key,
                                seen \cup {current})
    ELSE globals_tree_find_scan(s, s.cdr[s.cdr[current]], key,
                                seen \cup {current})

\* The length of the hint "[var: name]" (lisp.cpp 352-354), scaled to the
\* longest string of the model.
HintLen == MaxStrLen

\* lisp.cpp 328-359
globals_tree_find_impl(s, key) ==
    LET Error(str) ==
            IF Stuck(str.s) THEN str
            ELSE make_error(str.s, "undefined_variable_access", str.v)
        Found(v) ==
            IF v = -1 THEN [s |-> [s EXCEPT !.ub = TRUE], v |-> NULL]
            ELSE IF v = -2 THEN [s |-> [s EXCEPT !.hung = TRUE], v |-> NULL]
            ELSE IF v # NULL THEN [s |-> s, v |-> v]
            ELSE Error(make_string(s, HintLen))
    IN  IF s.globals_tree_ = s.nil_ THEN [s |-> s, v |-> s.nil_]
        ELSE Found(globals_tree_find_scan(s, s.globals_tree_, key, {}))

\* lisp.cpp 1076-1096: the binding of the symbol in the lexical chain, NULL
\* when there is none, -1 when a frame or a binding is not a list of pairs.
RECURSIVE lexical_find_in_frame(_, _, _, _)
lexical_find_in_frame(s, bindings, symbol, fuel) ==
    IF bindings = s.nil_ THEN NULL
    ELSE IF fuel = 0 THEN -1
    ELSE IF \/ s.type[bindings] # "cons"
            \/ s.type[s.car[bindings]] # "cons"
            \/ s.type[s.car[s.car[bindings]]] # "symbol"
    THEN -1
    ELSE IF s.val[s.car[s.car[bindings]]] = s.val[symbol]
    THEN s.car[bindings]
    ELSE lexical_find_in_frame(s, s.cdr[bindings], symbol, fuel - 1)

RECURSIVE lexical_find(_, _, _, _)
lexical_find(s, stack, symbol, fuel) ==
    LET Found(kvp) ==
            IF kvp # NULL THEN kvp
            ELSE lexical_find(s, s.cdr[stack], symbol, fuel - 1)
    IN  IF stack = s.nil_ THEN NULL
        ELSE IF fuel = 0 \/ s.type[stack] # "cons" THEN -1
        ELSE Found(lexical_find_in_frame(s, s.car[stack], symbol,
                                         Cardinality(CellsOf(s))))

set_var_impl(s, symbol, value) ==
    LET Store(kvp) ==
            IF kvp = -1 THEN [s EXCEPT !.ub = TRUE]
            ELSE IF kvp # NULL THEN [s EXCEPT !.cdr[kvp] = value]
            ELSE globals_tree_insert(s, symbol, value)
    IN  Store(lexical_find(s, s.lexical_bindings_, symbol,
                           Cardinality(CellsOf(s))))

\* lisp.cpp 1063-1069
RECURSIVE get_var_constant(_, _, _, _)
get_var_constant(s, symbol, found, i) ==
    IF i > Len(s.constants_) THEN [s |-> s, v |-> found]
    ELSE IF str_cmp(s, s.constants_[i].name_, s.val[symbol]) = 0
    THEN make_integer(s, s.constants_[i].value_)
    ELSE get_var_constant(s, symbol, found, i + 1)

\* lisp.cpp 1018-1071.  The names of the model do not start with '$'.
get_var_impl(s, symbol) ==
    LET Global(f) ==
            IF Stuck(f.s) \/ f.s.type[f.v] # "error" THEN f
            ELSE get_var_constant(f.s, symbol, f.v, 1)
        Lexical(kvp) ==
            IF kvp = -1 THEN [s |-> [s EXCEPT !.ub = TRUE], v |-> NULL]
            ELSE IF kvp # NULL THEN [s |-> s, v |-> s.cdr[kvp]]
            ELSE Global(globals_tree_find(s, symbol))
    IN  IF s.type[symbol] # "symbol"
        THEN [s |-> [s EXCEPT !.ub = TRUE], v |-> NULL]
        ELSE Lexical(lexical_find(s, s.lexical_bindings_, symbol,
                                  Cardinality(CellsOf(s))))

\* ---- the `env` builtin (lisp.cpp 422-433, 2958-2978) ---------------------
\* lisp.cpp 2967-2974: the callback; `current` is the local it captures.
env_callback(s, str) ==
    LET Link(n, current) ==
            IF Stuck(n.s) THEN n.s
            ELSE IF n.v # n.s.oom_
            THEN [n.s EXCEPT !.cdr[current] = n.v, !.current = n.v]
            ELSE n.s
        SetCar(y) ==
            IF Stuck(y.s) THEN y.s
            ELSE IF y.s.type[y.s.current] # "cons" THEN [y.s EXCEPT !.ub = TRUE]
            ELSE Link(make_cons([y.s EXCEPT !.car[y.s.current] = y.v],
                                y.s.nil_, y.s.nil_),
                      y.s.current)
    IN  SetCar(intern_to_symbol(s, str))

\* lisp.cpp 430-432
RECURSIVE get_env_constants(_, _)
get_env_constants(s, i) ==
    IF Stuck(s) \/ i > Len(s.constants_) THEN s
    ELSE get_env_constants(env_callback(s, s.constants_[i].name_), i + 1)

\* lisp.cpp 426-428: the visitor of get_env
get_env_visitor(s, kvp, node) ==
    IF s.type[kvp] = "cons" /\ s.type[s.car[kvp]] = "symbol"
    THEN env_callback(s, s.val[s.car[kvp]])
    ELSE [s EXCEPT !.ub = TRUE]

get_env_impl(s) ==
    get_env_constants(globals_tree_traverse(s, s.globals_tree_,
                                            get_env_visitor), 1)

\* lisp.cpp 2958-2978
env_impl(s) ==
    LET Done(s3, result) ==
            IF Stuck(s3) THEN [s |-> s3, v |-> NULL]
            ELSE [s |-> pop_op(s3), v |-> result]
        Walk(r) ==
            IF Stuck(r.s) THEN [s |-> r.s, v |-> NULL]
            ELSE Done(get_env([current |-> r.v] @@ push_op(r.s, r.v)), r.v)
    IN  Walk(make_cons(s, s.nil_, s.nil_))

\* ---- funcall and eval (lisp.cpp 436-445, 862-870, 902-997, 1103-1114,
\* ---- 2180-2284) ----------------------------------------------------------

\* The activations of funcall and eval the host's stack has room for.
MaxDepth == 3

\* The builtins of the model, a function cell's cpp_impl_.
GlobalsImpl == 0
ThisImpl == 1
ArgcImpl == 2
GcImpl == 3
EvalImpl == 4
EqualImpl == 5
Builtins == {GlobalsImpl, ThisImpl, ArgcImpl, GcImpl, EvalImpl, EqualImpl}

\* The name of the quote form, interned by init (lisp.cpp 2328).
QuoteStr == <<2>>

Undefined(s) == [s EXCEPT !.ub = TRUE]

\* lisp.cpp 904-908, 2246-2251: popping more operands than the stack holds
\* moves the end of the buffer below its start.
pop_args(s, argc) ==
    IF argc > Len(s.operand_stack) THEN Undefined(s)
    ELSE [s EXCEPT !.operand_stack = SubSeq(@, 1, Len(@) - argc)]

\* lisp.cpp 862-870
get_op(s, offset) ==
    IF offset >= Len(s.operand_stack) THEN s.nil_
    ELSE s.operand_stack[Len(s.operand_stack) - offset]

\* lisp.cpp 1103-1114
is_boolean_true(s, v) ==
    IF s.type[v] = "integer" THEN s.val[v] # 0 ELSE v # s.nil_

\* lisp.cpp 436-445.  The operands are promoted to int before the
\* comparison; an index outside the stack reads whatever lies there.
get_arg(s, n) ==
    LET br == s.arguments_break_loc_
        k == (s.current_fn_argc_ - 1) - n
    IN  IF br = Indeterminate THEN [s |-> Undefined(s), v |-> NULL]
        ELSE IF br >= k
        THEN IF br - k >= 0 /\ br - k < Len(s.operand_stack)
             THEN [s |-> s, v |-> s.operand_stack[(br - k) + 1]]
             ELSE [s |-> Undefined(s), v |-> NULL]
        ELSE [s |-> s, v |-> s.nil_]

\* push_op(f(...)) for a constructor or a lookup f.
PushValue(r) == IF Stuck(r.s) THEN r.s ELSE push_op(r.s, r.v)

\* auto result = get_op0(); pop_op(); return result;
TakeResult(q) ==
    IF Stuck(q) THEN [s |-> q, v |-> NULL]
    ELSE IF Len(q.operand_stack) = 0 THEN [s |-> Undefined(q), v |-> NULL]
    ELSE [s |-> pop_op(q), v |-> get_op0(q)]

\* String::value(): the bytes from the string's offset to the first NUL.
RECURSIVE BufferStr(_, _)
BufferStr(data, i) ==
    IF i >= Len(data) \/ data[i + 1] = 0 THEN <<>>
    ELSE <<data[i + 1]>> \o BufferStr(data, i + 1)

\* lisp.cpp 2420-2465: the value the inner lambda of `equal` returns, -1 when
\* a string has lost its buffer.
equal_values(s, a, b) ==
    CASE s.type[a] = "integer" -> IF s.val[a] = s.val[b] THEN 1 ELSE 0
      [] s.type[a] = "cons" -> 0
      [] s.type[a] = "error" -> 0
      [] s.type[a] = "symbol" -> IF s.val[a] = s.val[b] THEN 1 ELSE 0
      [] s.type[a] = "user_data" -> IF s.val[a] = s.val[b] THEN 1 ELSE 0
      [] s.type[a] = "string" ->
            IF ~HasBuffer(s, s.car[a]) \/ ~HasBuffer(s, s.car[b]) THEN -1
            ELSE IF BufferStr(s.scratch[s.val[s.car[a]]].data, s.val[a]) =
                    BufferStr(s.scratch[s.val[s.car[b]]].data, s.val[b])
            THEN 1 ELSE 0
      [] OTHER -> IF a = b THEN 1 ELSE 0

equal_impl(s, argc) ==
    LET Compare(v) ==
            IF v = -1 THEN [s |-> Undefined(s), v |-> NULL]
            ELSE make_integer(s, v)
    IN  IF argc # 2 THEN make_error(s, "invalid_argc", s.nil_)
        ELSE IF s.type[get_op0(s)] # s.type[get_op1(s)]
        THEN make_integer(s, 0)
        ELSE Compare(equal_values(s, get_op0(s), get_op1(s)))

\* lisp.cpp 2932-2943
eval_builtin(s, argc) ==
    IF argc < 1 THEN make_error(s, "invalid_argc", s.nil_)
    ELSE TakeResult(eval(s, get_op0(s)))

\* lisp.cpp 2910-2911
gc_builtin_impl(s) ==
    LET Count(g) ==
            IF Stuck(g.s) THEN [s |-> g.s, v |-> NULL]
            ELSE make_integer(g.s, g.v)
    IN  Count(run_gc(s))

\* Function::cpp_impl_, the builtin behind a native function cell.
cpp_impl_(s, impl, argc) ==
    CASE impl = GlobalsImpl -> [s |-> s, v |-> s.globals_tree_]
      [] impl = ThisImpl -> [s |-> s, v |-> s.this_]
      [] impl = ArgcImpl -> make_integer(s, s.current_fn_argc_)
      [] impl = GcImpl -> gc_builtin(s)
      [] impl = EvalImpl -> eval_builtin(s, argc)
      [] impl = EqualImpl -> equal(s, argc)

\* lisp.cpp 943-953: the loop over the body of an interpreted function.
RECURSIVE funcall_lisp_loop(_, _, _, _, _, _)
funcall_lisp_loop(s, obj, argc, break_loc, expression_list, seen) ==
    LET Advance(q) ==
            IF Stuck(q) THEN q
            ELSE IF q.type[expression_list] # "cons" THEN Undefined(q)
            ELSE funcall_lisp_loop(q, obj, argc, break_loc,
                                   q.cdr[expression_list],
                                   seen \cup {<<expression_list, s>>})
    IN  IF Stuck(s) \/ expression_list = s.nil_ THEN s
        ELSE IF s.type[expression_list] # "cons" THEN s
        ELSE IF <<expression_list, s>> \in seen THEN [s EXCEPT !.hung = TRUE]
        ELSE IF Len(s.operand_stack) = 0 THEN Undefined(s)
        ELSE Advance(eval([pop_op(s) EXCEPT
                             !.arguments_break_loc_ = break_loc,
                             !.current_fn_argc_ = argc,
                             !.this_ = obj],
                          s.car[expression_list]))

\* funcall without its last four statements.
funcall_keep_context(q, prev) ==
    IF Stuck(q) THEN q ELSE [q EXCEPT !.depth = prev.depth]

\* lisp.cpp 912-917, 993-996: prev is the state funcall was entered in, the
\* source of prev_this, prev_bindings, prev_arguments_break_loc and
\* prev_argc.
funcall_restore(q, prev) ==
    IF Stuck(q) THEN q
    ELSE [q EXCEPT !.this_ = prev.this_,
                   !.lexical_bindings_ = prev.lexical_bindings_,
                   !.arguments_break_loc_ = prev.arguments_break_loc_,
                   !.current_fn_argc_ = prev.current_fn_argc_,
                   !.depth = prev.depth]

\* lisp.cpp 902-997
funcall_impl(s, obj, argc) ==
    LET break_loc == Len(s.operand_stack) - 1
        \* pop_args(); push_op(result);
        Replace(r) ==
            LET Push(q) == IF Stuck(q) THEN q ELSE push_op(q, r.v)
            IN  IF Stuck(r.s) THEN r.s ELSE Push(pop_args(r.s, argc))
        Enter(q) == [q EXCEPT !.depth = @ + 1]
        Call ==
            CASE s.type[obj] # "function" ->
                    PushValue(make_error(Enter(s), "value_not_callable",
                                         s.nil_))
              [] s.type[obj] = "function" /\ Len(s.operand_stack) < argc ->
                    PushValue(make_error(pop_args(Enter(s), argc),
                                         "invalid_argc", obj))
              [] OTHER ->
                    CASE s.mode_bits[obj] = "cpp_function" ->
                            Replace(cpp_impl_(Enter(s), s.val[obj], argc))
                      [] s.mode_bits[obj] = "lisp_function" ->
                            Replace(TakeResult(
                                funcall_lisp_loop(
                                    push_op([Enter(s) EXCEPT
                                               !.lexical_bindings_ =
                                                   s.cdr[obj]],
                                            s.nil_),
                                    obj, argc, break_loc, s.car[obj], {})))
                      [] s.mode_bits[obj] = "lisp_bytecode_function" ->
                            IF \/ s.type[s.car[obj]] # "cons"
                               \/ s.type[s.car[s.car[obj]]] # "integer"
                            THEN Undefined(s)
                            ELSE Replace(TakeResult(
                                    vm_execute(
                                        [Enter(s) EXCEPT
                                           !.arguments_break_loc_ = break_loc,
                                           !.current_fn_argc_ = argc,
                                           !.this_ = obj,
                                           !.lexical_bindings_ = s.cdr[obj]],
                                        s.cdr[s.car[obj]],
                                        s.val[s.car[s.car[obj]]])))
                      [] OTHER -> Enter(s)
    IN  IF Stuck(s) THEN s
        ELSE IF s.depth >= MaxDepth THEN Undefined(s)
        ELSE funcall_restore(Call, s)

\* An eval that gives every error of a call the form as context.
eval_result_overwrite(q, code) ==
    LET result == get_op0(q)
        Context(c) ==
            IF c.type[result] = "error"
            THEN [c EXCEPT !.car[result] = code]
            ELSE c
    IN  IF Stuck(q) THEN q
        ELSE IF Len(q.operand_stack) < 2 THEN Undefined(q)
        ELSE push_op(pop_op(pop_op(Context(q))), result)

\* lisp.cpp 2272-2280: what eval does with the result of the call.
eval_result(q, code) ==
    LET result == get_op0(q)
        Context(c) ==
            IF c.type[result] = "error" /\ c.car[result] = c.nil_
            THEN [c EXCEPT !.car[result] = code]
            ELSE c
    IN  IF Stuck(q) THEN q
        ELSE IF Len(q.operand_stack) < 2 THEN Undefined(q)
        ELSE push_op(pop_op(pop_op(Context(q))), result)

\* lisp.cpp 2253-2272: the loop over the arguments of a call form.
RECURSIVE eval_args(_, _, _, _, _)
eval_args(s, code, function, arg_list, argc) ==
    LET Advance(q) ==
            IF Stuck(q) THEN q
            ELSE IF q.type[arg_list] # "cons" THEN Undefined(q)
            ELSE eval_args(q, code, function, q.cdr[arg_list], argc + 1)
    IN  IF Stuck(s) THEN s
        ELSE IF arg_list = s.nil_
        THEN eval_result(funcall(s, function, argc), code)
        ELSE IF s.type[arg_list] # "cons"
        THEN PushValue(make_error(pop_args(s, argc + 1),
                                  "value_not_callable", arg_list))
        ELSE IF argc >= Cardinality(CellsOf(s)) THEN [s EXCEPT !.hung = TRUE]
        ELSE Advance(eval(s, s.car[arg_list]))

\* The name of the let form (lisp.cpp 2220).
LetStr == <<1, 1>>

\* ListBuilder::push_back: the list under construction, b.head, gets a new
\* last pair; b.tail is NULL while the list is empty.
ListBuilder_push_back(s, b, elem) ==
    LET Link(r) ==
            IF Stuck(r.s) THEN [s |-> r.s, b |-> b]
            ELSE IF b.tail = NULL
            THEN [s |-> r.s, b |-> [head |-> r.v, tail |-> r.v]]
            ELSE IF r.s.type[r.v] = "cons" /\ r.s.type[b.tail] = "cons"
            THEN [s |-> [r.s EXCEPT !.cdr[b.tail] = r.v],
                  b |-> [head |-> b.head, tail |-> r.v]]
            ELSE [s |-> r.s, b |-> b]
    IN  Link(make_cons(s, elem, s.nil_))

\* lisp.cpp 2006-2029: the loop over the bindings; result is the address of
\* the Protected local.  Once result is set the remaining iterations do
\* nothing.
RECURSIVE eval_let_bindings(_, _, _, _)
eval_let_bindings(s, bindings, b, result) ==
    LET binding == s.car[bindings]
        Pushed(r) ==
            IF Stuck(r.s) THEN r
            ELSE eval_let_bindings(pop_op(r.s), r.s.cdr[bindings], r.b,
                                   result)
        Pair(k) ==
            IF Stuck(k.s) THEN [s |-> k.s, b |-> b]
            ELSE Pushed(ListBuilder_push_back(k.s, b, k.v))
        Bound(q) ==
            IF Stuck(q) THEN [s |-> q, b |-> b]
            ELSE IF Len(q.operand_stack) = 0
            THEN [s |-> Undefined(q), b |-> b]
            ELSE Pair(make_cons(q, q.car[binding], get_op0(q)))
        Malformed(e) ==
            [s |-> IF Stuck(e.s) THEN e.s
                   ELSE Protected_set(e.s, result, e.v),
             b |-> b]
    IN  IF Stuck(s) \/ s.type[bindings] # "cons" THEN [s |-> s, b |-> b]
        ELSE IF /\ s.type[binding] = "cons"
                /\ s.type[s.car[binding]] = "symbol"
                /\ s.type[s.cdr[binding]] = "cons"
        THEN Bound(eval(s, s.car[s.cdr[binding]]))
        ELSE Malformed(make_error(s, "mismatched_parentheses", s.nil_))

\* lisp.cpp 2047-2053: the loop over the body forms.
RECURSIVE eval_let_body(_, _, _)
eval_let_body(s, forms, result) ==
    LET Next(q) ==
            IF Stuck(q) THEN q
            ELSE IF Len(q.operand_stack) = 0 THEN Undefined(q)
            ELSE eval_let_body(pop_op(Protected_set(q, result, get_op0(q))),
                               q.cdr[forms], result)
    IN  IF Stuck(s) \/ s.type[forms] # "cons" THEN s
        ELSE Next(eval(s, s.car[forms]))

\* eval_let without its last assignment to lexical_bindings_.
eval_let_keep_frame(q) == q

\* lisp.cpp 2055-2056
eval_let_pop_frame(q) == IF Stuck(q) THEN q ELSE lexical_frame_pop(q)

\* lisp.cpp 1987-2060
eval_let(s, code) ==
    LET result == Len(s.protecteds) + 1
        Return(q) ==
            IF Stuck(q) THEN q
            ELSE ProtectedBase_dtor(push_op(q, q.protecteds[result].val_))
        \* lisp.cpp 2036-2045
        Frame(r) ==
            IF Stuck(r.s) THEN r.s
            ELSE IF r.s.type[r.v] = "error"
            THEN ProtectedBase_dtor(push_op(r.s, r.v))
            ELSE Return(eval_let_pop_frame(
                            eval_let_body([r.s EXCEPT
                                             !.lexical_bindings_ = r.v],
                                          r.s.cdr[code], result)))
        \* lisp.cpp 2031-2037
        Bindings(r) ==
            IF Stuck(r.s) THEN r.s
            ELSE IF r.s.protecteds[result].val_ # r.s.nil_ THEN Return(r.s)
            ELSE Frame(make_cons(r.s, r.b.head, r.s.lexical_bindings_))
    IN  IF Stuck(s) THEN s
        ELSE IF s.type[code] # "cons"
        THEN PushValue(make_error(s, "mismatched_parentheses", s.nil_))
        ELSE Bindings(eval_let_bindings(ProtectedBase_ctor(s, s.nil_),
                                        s.car[code],
                                        [head |-> s.nil_, tail |-> NULL],
                                        result))

\* lisp.cpp 2221-2226: the result of the special form replaces the form.
eval_special(q) ==
    IF Stuck(q) THEN q
    ELSE IF Len(q.operand_stack) < 2 THEN Undefined(q)
    ELSE push_op(pop_op(pop_op(q)), get_op0(q))

\* The name of the macro form.
MacroStr == <<1, 2>>

\* lisp.cpp 2063-2072
eval_macro(s, code) ==
    LET Register(c) ==
            IF Stuck(c.s) THEN c.s
            ELSE push_op([c.s EXCEPT !.macros_ = c.v], c.s.nil_)
    IN  IF Stuck(s) THEN s
        ELSE IF s.type[code] # "cons" THEN Undefined(s)
        ELSE IF s.type[s.car[code]] = "symbol"
        THEN Register(make_cons(s, code, s.macros_))
        ELSE [s EXCEPT !.fatal = TRUE]

\* lisp.cpp 2233: the pop_op() that follows eval_macro
eval_macro_pop(q) == IF Stuck(q) THEN q ELSE pop_op(q)

\* lisp.cpp 2180-2284.  Of the names of the special forms only "'", "let"
\* and "macro" are names of the model.
eval_impl(s, code) ==
    LET Leave(q) == IF Stuck(q) THEN q ELSE [q EXCEPT !.depth = s.depth]
        \* lisp.cpp 2182
        Enter(q) == [q EXCEPT !.depth = @ + 1, !.interp_entry_count_ = @ + 1]
        \* the decrement before each return of the branch of a pair
        Exit(q) ==
            IF Stuck(q) THEN q ELSE [q EXCEPT !.interp_entry_count_ = @ - 1]
        Call(r) ==
            IF Stuck(r.s) THEN r.s
            ELSE eval_args(r.s, code, r.v, r.s.cdr[code], 0)
        Form ==
            CASE s.type[code] = "symbol" ->
                    PushValue(get_var(Enter(s), code))
              [] s.type[code] = "cons" /\ s.type[s.car[code]] = "symbol"
                    /\ c_str(s, s.val[s.car[code]]) = QuoteStr ->
                    Exit(push_op(Enter(s), s.cdr[code]))
              [] s.type[code] = "cons" /\ s.type[s.car[code]] = "symbol"
                    /\ c_str(s, s.val[s.car[code]]) = LetStr ->
                    Exit(eval_special(eval_let(push_op(Enter(s), code),
                                               s.cdr[code])))
              [] s.type[code] = "cons" /\ s.type[s.car[code]] = "symbol"
                    /\ c_str(s, s.val[s.car[code]]) = MacroStr ->
                    Exit(eval_macro_pop(eval_macro(push_op(Enter(s), code),
                                                   s.cdr[code])))
              [] s.type[code] = "cons" /\
                    ~(s.type[s.car[code]] = "symbol"
                      /\ c_str(s, s.val[s.car[code]])
                             \in {QuoteStr, LetStr, MacroStr}) ->
                    Exit(Call(TakeResult(eval(push_op(Enter(s), code),
                                              s.car[code]))))
              [] OTHER -> push_op(Enter(s), code)
    IN  IF Stuck(s) THEN s
        ELSE IF s.depth >= MaxDepth THEN Undefined(s)
        ELSE Leave(Form)

\* ---- the bytecode VM (vm.cpp 37-478) -------------------------------------
\* The opcodes of the instructions the programs of the model are made of.
FatalOp == 0
PushNilOp == 3
SmallJumpIfFalseOp == 11
SmallJumpOp == 12
TailCallOp == 14
TailCall1Op == 15
TailCall2Op == 16
TailCall3Op == 17
FuncallOp == 18
Funcall1Op == 19
PopOp_ == 23
RetOp == 24
DupOp == 25
FirstOp == 27
RestOp == 28
Arg0Op == 30
Arg1Op == 31
Arg2Op == 32
PushThisOp == 33
EarlyRetOp == 34
NotOp == 35
LexicalFramePushOp == 37
LexicalFramePopOp == 38

Opcodes ==
    {FatalOp, PushNilOp, SmallJumpIfFalseOp, SmallJumpOp, TailCallOp,
     TailCall1Op, TailCall2Op, TailCall3Op, FuncallOp, Funcall1Op, PopOp_,
     RetOp, DupOp, FirstOp, RestOp, Arg0Op, Arg1Op, Arg2Op, PushThisOp,
     EarlyRetOp, NotOp, LexicalFramePushOp, LexicalFramePopOp}

\* sizeof(Instruction): the opcode and its u8 operand, if it has one.
InstructionSize(op) ==
    IF op \in {SmallJumpIfFalseOp, SmallJumpOp, TailCallOp, FuncallOp}
    THEN 2 ELSE 1

\* vm.cpp 47-52
RECURSIVE unwind_lexical_scope(_, _)
unwind_lexical_scope(s, nested_scope) ==
    IF Stuck(s) \/ nested_scope = 0 THEN s
    ELSE IF nested_scope < 0 THEN Undefined(s)
    ELSE unwind_lexical_scope(lexical_frame_pop(s), nested_scope - 1)

\* A self tail call that leaves the lexical frames of the body open.
tail_call_keep_scope(s, nested_scope) == s

\* vm.cpp 180, 217, 252, 289: unwind_lexical_scope() before the jump to TOP.
tail_call_unwind(s, nested_scope) == unwind_lexical_scope(s, nested_scope)

\* One run of the loop at TOP: code is the scratch buffer bound at entry,
\* seen the states in which a jump was taken.
RECURSIVE vm_run(_, _, _, _, _, _)
vm_run(s, code, start_offset, pc, nested_scope, seen) ==
    LET data == s.scratch[code].data
        op == data[pc + 1]
        operand == data[pc + 2]
        next == pc + InstructionSize(op)
        Continue(q) == vm_run(q, code, start_offset, next, nested_scope, seen)
        Jump(q, target, scope) ==
            IF Stuck(q) THEN q
            ELSE IF <<pc, scope, q>> \in seen THEN [q EXCEPT !.hung = TRUE]
            ELSE vm_run(q, code, start_offset, target, scope,
                        seen \cup {<<pc, scope, q>>})
        Push(r) == Continue(PushValue(r))
        \* Protected fn(get_op(0)); ...; pop_op(); funcall(fn, argc);
        Call(fn, argc, nested) ==
            LET Unprotect(q) ==
                    IF Stuck(q) THEN q ELSE Continue(ProtectedBase_dtor(q))
            IN  Unprotect(funcall(
                    [pop_args(ProtectedBase_ctor(s, fn), 1) EXCEPT
                       !.nested_self_calls = @ + nested],
                    fn, argc))
        \* pc = start_offset; goto TOP: the function, the chain of lexical
        \* bindings and the count of open frames the restart begins with.
        Reenter(q) ==
            IF Stuck(q) THEN q
            ELSE [q EXCEPT !.reentries =
                     @ \cup {[fn |-> q.this_, opened |-> nested_scope,
                              chain |-> q.lexical_bindings_,
                              nested_scope |-> 0]}]
        \* vm.cpp 157-298: argv are the operands the re-entered frame keeps.
        TailCall(fn, argc, argv, optimized) ==
            IF fn # s.this_ THEN Call(fn, argc, 0)
            ELSE IF s.current_fn_argc_ # argc
            THEN [(IF op = TailCallOp THEN pop_args(s, 1) ELSE s)
                    EXCEPT !.hung = TRUE]
            ELSE IF ~optimized THEN Call(fn, argc, 1)
            ELSE Jump(Reenter(ProtectedBase_dtor(ProtectedBase_ctor(
                          [tail_call_unwind(
                               pop_args(s, 1 + (2 * argc)), nested_scope)
                             EXCEPT !.operand_stack = @ \o argv], fn))),
                      start_offset, 0)
    IN  IF Stuck(s) THEN s
        ELSE IF pc < 0 \/ pc >= Len(data) THEN Undefined(s)
        ELSE IF op \notin Opcodes THEN Undefined(s)
        ELSE IF InstructionSize(op) = 2 /\ pc + 1 >= Len(data)
        THEN Undefined(s)
        ELSE CASE op = SmallJumpIfFalseOp ->
                    IF ~is_boolean_true(s, get_op(s, 0))
                    THEN Jump(pop_args(s, 1), start_offset + operand,
                              nested_scope)
                    ELSE Continue(pop_args(s, 1))
               [] op = SmallJumpOp ->
                    Jump(s, start_offset + operand, nested_scope)
               [] op = DupOp -> Continue(push_op(s, get_op(s, 0)))
               [] op = NotOp ->
                    Push(make_integer(
                            pop_args(s, 1),
                            IF is_boolean_true(s, get_op(s, 0)) THEN 0
                            ELSE 1))
               [] op = PushNilOp -> Continue(push_op(s, s.nil_))
               [] op = TailCallOp ->
                    TailCall(get_op(s, 0), operand, <<>>, operand = 0)
               [] op = TailCall1Op ->
                    TailCall(get_op(s, 0), 1, <<get_op(s, 1)>>, TRUE)
               [] op = TailCall2Op ->
                    TailCall(get_op(s, 0), 2,
                             <<get_op(s, 2), get_op(s, 1)>>, TRUE)
               [] op = TailCall3Op ->
                    TailCall(get_op(s, 0), 3,
                             <<get_op(s, 3), get_op(s, 2), get_op(s, 1)>>,
                             TRUE)
               [] op = FuncallOp -> Call(get_op(s, 0), operand, 0)
               [] op = Funcall1Op -> Call(get_op(s, 0), 1, 0)
               [] op \in {Arg0Op, Arg1Op, Arg2Op} ->
                    Push(get_arg(s, IF op = Arg0Op THEN 0
                                    ELSE IF op = Arg1Op THEN 1 ELSE 2))
               [] op \in {FirstOp, RestOp} ->
                    IF s.type[get_op(s, 0)] = "cons"
                    THEN Continue(push_op(pop_args(s, 1),
                                          IF op = FirstOp
                                          THEN s.car[get_op(s, 0)]
                                          ELSE s.cdr[get_op(s, 0)]))
                    ELSE Push(make_error(pop_args(s, 1),
                                         "invalid_argument_type", s.nil_))
               [] op = PopOp_ -> Continue(pop_args(s, 1))
               [] op \in {EarlyRetOp, RetOp} -> s
               [] op = PushThisOp -> Continue(push_op(s, s.this_))
               [] op = LexicalFramePushOp ->
                    vm_run(lexical_frame_push(s), code, start_offset, next,
                           nested_scope + 1, seen)
               [] op = LexicalFramePopOp ->
                    vm_run(lexical_frame_pop(s), code, start_offset, next,
                           nested_scope - 1, seen)
               [] op = FatalOp -> [s EXCEPT !.hung = TRUE]

\* vm.cpp 37-45
vm_execute_impl(s, code_buffer, start_offset) ==
    IF ~HasBuffer(s, code_buffer) THEN Undefined(s)
    ELSE vm_run(s, s.val[code_buffer], start_offset, start_offset, 0, {})

\* ---- the reader (lisp.cpp 1554-1631, 1660-1753, 1889-1984) ---------------
\* A source text is a sequence of characters; the NUL that ends it follows
\* its last character.  The characters of names are Bytes, 2 being the quote
\* character; NilCh stands for the word nil.
NulCh == 0
SpaceCh == 32
LParenCh == 40
RParenCh == 41
DotCh == 46
ZeroCh == 48
OneCh == 49
NilCh == 110
QuoteCh == 2
DQuoteCh == 34

Digits == {ZeroCh, OneCh}
Delimiters == {LParenCh, RParenCh, SpaceCh, NulCh}

CharAt(code, i) == IF i < Len(code) THEN code[i + 1] ELSE NulCh


\* lisp.cpp 1704-1753, for decimal digits
RECURSIVE NumberEnd(_, _)
NumberEnd(code, i) ==
    IF CharAt(code, i) \in Digits THEN NumberEnd(code, i + 1) ELSE i

RECURSIVE Decimal(_, _, _, _)
Decimal(code, i, end, result) ==
    IF i >= end THEN result
    ELSE Decimal(code, i + 1, end, (result * 10) + (code[i + 1] - ZeroCh))

read_number(s, code, i) ==
    [s |-> PushValue(make_integer(s, Decimal(code, i, NumberEnd(code, i),
                                             0))),
     v |-> NumberEnd(code, i)]

\* lisp.cpp 1660-1701
RECURSIVE SymbolEnd(_, _)
SymbolEnd(code, i) ==
    IF CharAt(code, i) \in Delimiters THEN i ELSE SymbolEnd(code, i + 1)

read_symbol(s, code, i) ==
    LET end == SymbolEnd(code, i)
        symbol == SubSeq(code, i + 1, end)
    IN  IF CharAt(code, i) = QuoteCh
        THEN [s |-> PushValue(make_symbol(s, HostPtr(QuoteStr),
                                          "requires_intern")),
              v |-> i + 1]
        ELSE IF symbol = <<NilCh>>
        THEN [s |-> push_op(s, s.nil_), v |-> end]
        ELSE IF symbol \notin Names THEN [s |-> Undefined(s), v |-> end]
        ELSE [s |-> PushValue(make_symbol(s, HostPtr(symbol),
                                          "requires_intern")),
              v |-> end]

\* lisp.cpp 1796-1887: the loop over the macros (lisp.cpp 1804-1805).  No
\* state of the model has a macro: the list macros_ is nil and the loop has no
\* iteration, whatever the head of the list that was read.
macroexpand(s) == IF s.macros_ = s.nil_ THEN s ELSE Undefined(s)

\* lisp.cpp 1639-1647: the loop of read_string; i is the offset of the next
\* character in the text and n the count of bytes copied to the buffer temp.
\* The terminating NUL of the text is its character at offset Len(code); the
\* bytes after it are not the text's, and the bytes after the last one of
\* the buffer are not the buffer's.
RECURSIVE read_string_loop(_, _, _, _)
read_string_loop(s, code, i, n) ==
    LET ch == CharAt(code, i)
        \* lisp.cpp 1640-1644
        Check(q) ==
            IF ch = NulCh \/ n = ScratchBufferSize - 1
            THEN PushValue(make_error(q, "mismatched_parentheses", q.nil_))
            ELSE q
    IN  IF Stuck(s) THEN [s |-> s, v |-> i]
        ELSE IF i > Len(code) THEN [s |-> Undefined(s), v |-> i]
        ELSE IF ch = DQuoteCh THEN [s |-> s, v |-> i]
        ELSE IF n >= ScratchBufferSize THEN [s |-> Undefined(s), v |-> i]
        ELSE read_string_loop(Check(s), code, i + 1, n + 1)

\* lisp.cpp 1633-1657: the text after the opening quote starts at offset i;
\* returns the state and the offset of the character after the closing quote.
\* The buffer temp is held from the first statement to the return.
read_string(s, code, i) ==
    LET temp == make_scratch_buffer(s)
        Release(q) ==
            IF Stuck(q) THEN q ELSE [q EXCEPT !.scratch[temp].held = FALSE]
        \* lisp.cpp 1649-1656
        Close(r) ==
            IF Stuck(r.s) THEN r
            ELSE IF (r.v - i) >= ScratchBufferSize
            THEN [s |-> Undefined(r.s), v |-> r.v]
            ELSE [s |-> Release(PushValue(make_string(r.s, r.v - i))),
                  v |-> r.v + 1]
    IN  IF scratch_buffers_remaining(s) = 0
        THEN [s |-> [s EXCEPT !.fatal = TRUE], v |-> i]
        ELSE Close(read_string_loop([s EXCEPT !.scratch[temp].held = TRUE],
                                    code, i, 0))

\* lisp.cpp 1563-1630: the loop of read_list; i is the offset of the next
\* character in the text.
RECURSIVE read_list_loop(_, _, _, _, _)
read_list_loop(s, code, i, result, dotted_pair) ==
    LET ch == CharAt(code, i)
        Error(q) ==
            PushValue(make_error(q, "mismatched_parentheses", q.nil_))
        \* lisp.cpp 1616-1620
        First(c, j) ==
            IF Stuck(c.s) THEN [s |-> c.s, v |-> j]
            ELSE read_list_loop(push_op(pop_args(c.s, 2), c.v), code, j,
                                c.v, dotted_pair)
        \* lisp.cpp 1622-1625
        Next(c, j) ==
            IF Stuck(c.s) THEN [s |-> c.s, v |-> j]
            ELSE IF c.s.type[result] # "cons"
            THEN [s |-> Undefined(c.s), v |-> j]
            ELSE read_list_loop([pop_args(c.s, 1) EXCEPT
                                   !.cdr[result] = c.v],
                                code, j, c.v, dotted_pair)
        Element(r) ==
            IF Stuck(r.s) THEN r
            ELSE IF result = r.s.nil_
            THEN First(make_cons(r.s, get_op0(r.s), r.s.nil_), r.v)
            ELSE Next(make_cons(r.s, get_op0(r.s), r.s.nil_), r.v)
        \* lisp.cpp 1579-1582
        Dotted(r) ==
            IF Stuck(r.s) THEN r
            ELSE IF r.s.type[result] # "cons"
            THEN [s |-> Undefined(r.s), v |-> r.v]
            ELSE read_list_loop([pop_args(r.s, 1) EXCEPT
                                   !.cdr[result] = get_op0(r.s)],
                                code, r.v, result, TRUE)
    IN  IF Stuck(s) THEN [s |-> s, v |-> i]
        ELSE CASE ch = SpaceCh ->
                    read_list_loop(s, code, i + 1, result, dotted_pair)
               [] ch = DotCh ->
                    IF dotted_pair \/ result = s.nil_
                    THEN [s |-> Error(s), v |-> i + 1]
                    ELSE Dotted(read(s, code, i + 1))
               [] ch = RParenCh -> [s |-> s, v |-> i + 1]
               [] ch = NulCh -> [s |-> Error(pop_args(s, 1)), v |-> i]
               [] OTHER ->
                    IF dotted_pair THEN [s |-> Error(s), v |-> i]
                    ELSE Element(read(s, code, i))

\* lisp.cpp 1554-1631
read_list(s, code, i) ==
    read_list_loop(push_op(s, s.nil_), code, i, s.nil_, FALSE)

\* lisp.cpp 1895-1983: the loop of read.
RECURSIVE read_loop(_, _, _)
read_loop(s, code, i) ==
    LET ch == CharAt(code, i)
        Expand(r) ==
            IF Stuck(r.s) THEN r ELSE [s |-> macroexpand(r.s), v |-> r.v]
        \* lisp.cpp 1974-1979
        Close(r, pair) ==
            IF Stuck(r.s) THEN r
            ELSE [s |-> push_op(pop_args([r.s EXCEPT
                                            !.cdr[pair] = get_op0(r.s)], 3),
                                pair),
                  v |-> r.v]
        Pair(c, j) ==
            IF Stuck(c.s) THEN [s |-> c.s, v |-> j]
            ELSE IF c.s.type[c.v] # "cons"
            THEN [s |-> Undefined(c.s), v |-> j]
            ELSE Close(read(push_op(c.s, c.v), code, j), c.v)
        \* lisp.cpp 1968-1981
        Quoted(r) ==
            IF Stuck(r.s) THEN r
            ELSE IF /\ r.s.type[get_op0(r.s)] = "symbol"
                    /\ c_str(r.s, r.s.val[get_op0(r.s)]) = QuoteStr
            THEN Pair(make_cons(r.s, get_op0(r.s), r.s.nil_), r.v)
            ELSE r
    IN  IF Stuck(s) THEN [s |-> s, v |-> i]
        ELSE CASE ch = NulCh -> [s |-> s, v |-> i]
               [] ch = LParenCh ->
                    Expand(read_list(pop_args(s, 1), code, i + 1))
               [] ch \in Digits -> read_number(pop_args(s, 1), code, i)
               [] ch = SpaceCh -> read_loop(s, code, i + 1)
               [] ch = DQuoteCh -> read_string(pop_args(s, 1), code, i + 1)
               [] OTHER -> Quoted(read_symbol(pop_args(s, 1), code, i))

\* lisp.cpp 1889-1984: returns the state and the offset of the character
\* after the form.
read_impl(s, code, i) == read_loop(push_op(s, s.nil_), code, i)

\* ---- dostring (lisp.cpp 1154-1190) ---------------------------------------
\* The host's on_error callback: the history of the call records its
\* argument.
on_error(s, error) == [s EXCEPT !.call.errors = Append(@, error)]

RECURSIVE dostring_loop(_, _, _, _)
dostring_loop(s, code, i, seen) ==
    LET \* lisp.cpp 1179-1184
        Check(q, expr_result, j) ==
            IF q.type[expr_result] = "error"
            THEN pop_op(on_error(push_op(q, expr_result), expr_result))
            ELSE dostring_loop(q, code, j, seen \cup {<<i, s>>})
        \* lisp.cpp 1173-1177
        Evaluated(q, j) ==
            IF Stuck(q) THEN q
            ELSE IF Len(q.operand_stack) < 2 THEN Undefined(q)
            ELSE Check(pop_args(Protected_set(q, LastProtected(q),
                                              get_op0(q)), 2),
                       get_op0(q), j)
        \* lisp.cpp 1167-1172
        Read(r) ==
            IF Stuck(r.s) THEN r.s
            ELSE IF get_op0(r.s) = r.s.nil_ THEN pop_op(r.s)
            ELSE Evaluated(eval([r.s EXCEPT
                                   !.call.evaluated = Append(@, i)],
                                get_op0(r.s)),
                           r.v)
    IN  IF Stuck(s) THEN s
        ELSE IF <<i, s>> \in seen THEN [s EXCEPT !.hung = TRUE]
        ELSE Read(read(s, code, i))

\* The text is not a null pointer.
dostring_impl(s, code) ==
    LET Return(q) ==
            IF Stuck(q) THEN [s |-> q, v |-> NULL]
            ELSE [s |-> [ProtectedBase_dtor(q) EXCEPT
                            !.interp_entry_count_ = @ - 1],
                  v |-> q.protecteds[LastProtected(q)].val_]
    IN  Return(dostring_loop(
                   ProtectedBase_ctor(
                       [s EXCEPT !.interp_entry_count_ = @ + 1], s.nil_),
                   code, 0, {}))

\* ---- load_module (lisp.cpp 3350-3437) ------------------------------------
\* The bytecode of the modules the host loads; none has a relocatable
\* instruction or a PushLambda.
Programs ==
    {<<PushNilOp, RetOp>>,
     <<Arg0Op, RetOp>>,
     <<PushThisOp, TailCallOp, 0, RetOp>>,
     <<Arg0Op, PushThisOp, TailCall1Op, RetOp>>,
     <<PushThisOp, TailCallOp, 1, RetOp>>,
     <<LexicalFramePushOp, PushNilOp, RetOp>>,
     <<LexicalFramePushOp, PushThisOp, TailCall1Op, RetOp>>,
     <<LexicalFramePushOp, PushThisOp, TailCallOp, 0, RetOp>>,
     <<Arg0Op, PushThisOp, TailCallOp, 1, RetOp>>}

\* lisp.cpp 3383-3436: the scan ends at the first Ret outside a lambda.
RECURSIVE load_module_scan(_, _)
load_module_scan(data, pc) ==
    IF pc >= Len(data) \/ data[pc + 1] \notin Opcodes THEN FALSE
    ELSE IF data[pc + 1] = RetOp THEN TRUE
    ELSE load_module_scan(data, pc + InstructionSize(data[pc + 1]))

load_module_impl(s, program) ==
    LET \* the three Protected objects leave scope
        Leave(q) ==
            IF Stuck(q) THEN q
            ELSE ProtectedBase_dtor(ProtectedBase_dtor(ProtectedBase_dtor(q)))
        \* lisp.cpp 3375-3378
        Copy(q, buffer) ==
            IF Stuck(q) THEN q
            ELSE IF ~HasBuffer(q, buffer) THEN Undefined(q)
            ELSE IF ~load_module_scan(program, 0) THEN Undefined(q)
            ELSE Leave([q EXCEPT !.scratch[q.val[buffer]].data =
                          [i \in DOMAIN @ |->
                             IF i <= Len(program) THEN program[i] ELSE @[i]]])
        Function(c, buffer) ==
            IF Stuck(c.s) THEN c.s
            ELSE Copy(PushValue(make_bytecode_function(
                                    ProtectedBase_ctor(c.s, c.v), c.v)),
                      buffer)
        Bytecode(z, buffer) ==
            IF Stuck(z.s) THEN z.s
            ELSE Function(make_cons(ProtectedBase_ctor(z.s, z.v), z.v,
                                    buffer),
                          buffer)
        Zero(b) ==
            IF Stuck(b.s) THEN b.s
            ELSE Bytecode(make_integer(ProtectedBase_ctor(b.s, b.v), 0), b.v)
    IN  Zero(make_databuffer(s))


\* ---- load_module: relocation (lisp.cpp 3350-3437) -------------------------
\* A module as load_instruction decodes it: the names of its symbol table
\* and its bytecode as a sequence of instructions, each an opcode with its
\* operand (0 for an instruction that has none).
MaxCode == 5

Relocatable ==
    {"LoadVarRelocatable", "PushSymbolRelocatable", "LexicalDefRelocatable"}

\* lisp.cpp 3402, 3413, 3424: the opcode the relocated instruction is given
NonRelocatable(op) ==
    CASE op = "LoadVarRelocatable" -> "LoadVar"
      [] op = "PushSymbolRelocatable" -> "PushSymbol"
      [] op = "LexicalDefRelocatable" -> "LexicalDef"

Inst(op, operand) == [op |-> op, operand |-> operand]

SymbolTables == {<<<<1, 1>>, <<2>>>>, <<<<2, 1>>, <<1>>>>}

Instructions ==
    {Inst("PushLambda", 0), Inst("Ret", 0), Inst("PushNil", 0),
     Inst("LoadVarRelocatable", 0), Inst("PushSymbolRelocatable", 1),
     Inst("LexicalDefRelocatable", 0)}

Modules ==
    {[symbols |-> t, code |-> c] :
        t \in SymbolTables,
        c \in UNION {[1..n -> Instructions] : n \in 1..MaxCode}}

\* A scan that does not count the lambdas it enters.
scan_skip_lambda(depth) == depth

\* lisp.cpp 3386-3389: case PushLambda: ++depth
scan_enter_lambda(depth) == depth + 1

\* lisp.cpp 3380-3436: the loop over the instructions of the copied bytecode;
\* lisp.cpp 3358-3372: load_module_symbol(sym) is the sym-th name of the table.
RECURSIVE load_module_relocate(_, _, _, _, _)
load_module_relocate(s, symbols, code, index, depth) ==
    LET inst == code[index + 1]
        Rewrite(i) ==
            IF Stuck(i.s) THEN [s |-> i.s, v |-> code]
            ELSE load_module_relocate(
                     i.s, symbols,
                     [code EXCEPT ![index + 1] =
                         Inst(NonRelocatable(inst.op), i.v)],
                     index + 1, depth)
    IN  IF Stuck(s) THEN [s |-> s, v |-> code]
        ELSE IF index >= Len(code) THEN [s |-> Undefined(s), v |-> code]
        ELSE CASE inst.op = "PushLambda" ->
                    load_module_relocate(s, symbols, code, index + 1,
                                         scan_enter_lambda(depth))
               [] inst.op = "Ret" ->
                    IF depth = 0 THEN [s |-> s, v |-> code]
                    ELSE load_module_relocate(s, symbols, code, index + 1,
                                              depth - 1)
               [] inst.op \in Relocatable ->
                    IF inst.operand >= Len(symbols)
                    THEN [s |-> Undefined(s), v |-> code]
                    ELSE Rewrite(intern(s, HostPtr(symbols[inst.operand + 1])))
               [] OTHER ->
                    load_module_relocate(s, symbols, code, index + 1, depth)

\* lisp.cpp 3350-3437 for a module given by its instructions: the cells
\* load_module allocates, the function it pushes, and the relocated bytecode
\* of the buffer.
load_module_instructions_impl(s, module) ==
    LET Leave(q) ==
            IF Stuck(q) THEN q
            ELSE ProtectedBase_dtor(ProtectedBase_dtor(ProtectedBase_dtor(q)))
        Scan(q, buffer) ==
            IF Stuck(q) THEN [s |-> q, v |-> module.code]
            ELSE IF ~HasBuffer(q, buffer)
            THEN [s |-> Undefined(q), v |-> module.code]
            ELSE load_module_relocate(q, module.symbols, module.code, 0, 0)
        Function(c, buffer) ==
            IF Stuck(c.s) THEN [s |-> c.s, v |-> module.code]
            ELSE Scan(PushValue(make_bytecode_function(
                                    ProtectedBase_ctor(c.s, c.v), c.v)),
                      buffer)
        Bytecode(z, buffer) ==
            IF Stuck(z.s) THEN [s |-> z.s, v |-> module.code]
            ELSE Function(make_cons(ProtectedBase_ctor(z.s, z.v), z.v,
                                    buffer),
                          buffer)
        Zero(b) ==
            IF Stuck(b.s) THEN [s |-> b.s, v |-> module.code]
            ELSE Bytecode(make_integer(ProtectedBase_ctor(b.s, b.v), 0), b.v)
        Loaded(r) == [s |-> Leave(r.s), v |-> r.v]
    IN  Loaded(Zero(make_databuffer(s)))


\* ---- init (lisp.cpp 2293-2326) ------------------------------------------
InitState_impl(n) ==
    LET \* lisp.cpp 2326: set_var("*pfrm*", make_userdata(&pfrm)), the first
        \* of the bindings init installs.
        \* lisp.cpp 2328: intern("'")
        Quote(s3) == [intern(s3, HostPtr(<<2>>)).s EXCEPT !.gc_runs = 0]
        Bind(u, y) ==
            Quote([set_var(y.s, y.v, u.v) EXCEPT
                     !.bound = {<<y.s.val[y.v], u.v>>}])
        Intern(u) ==
            Bind(u, make_symbol(u.s, HostPtr(<<1>>), "requires_intern"))
        \* lisp.cpp 2316-2320
        Push(s2) == Intern(make_userdata(push_op(push_op(s2, s2.nil_),
                                                 s2.nil_), 0))
        \* lisp.cpp 2308-2314
        Oom(b, nil) ==
            Push([b.s EXCEPT !.oom_ = b.v, !.type[b.v] = "error",
                             !.code_[b.v] = "out_of_memory",
                             !.car[b.v] = nil, !.string_buffer_ = nil,
                             !.macros_ = nil])
        \* lisp.cpp 2302-2306
        Nil(a) ==
            Oom(alloc_value([a.s EXCEPT !.nil_ = a.v, !.type[a.v] = "nil",
                                        !.globals_tree_ = a.v,
                                        !.this_ = a.v,
                                        !.lexical_bindings_ = a.v]),
                a.v)
    IN  Nil(alloc_value(
              value_pool_init(n) @@
              [operand_stack |-> <<>>, nil_ |-> NULL, oom_ |-> NULL,
               string_buffer_ |-> NULL, globals_tree_ |-> NULL,
               lexical_bindings_ |-> NULL, macros_ |-> NULL, this_ |-> NULL,
               protected_values |-> NULL, protecteds |-> <<>>,
               interns_ |-> [k \in 1..InternTableSize |-> 0],
               string_intern_pos_ |-> 0, constants_ |-> <<>>,
               bound |-> {},
               arguments_break_loc_ |-> Indeterminate,
               current_fn_argc_ |-> 0,
               interp_entry_count_ |-> 0,
               call |-> NoCall, nested_self_calls |-> 0, depth |-> 0,
               reentries |-> {},
               calls |-> 0,
               scratch |-> [b \in 1..ScratchBufferCount |->
                              [held |-> FALSE,
                               data |-> [i \in 1..ScratchBufferSize |-> 0]]],
               ret |-> NULL, gc_runs |-> 0, hung |-> FALSE, ub |-> FALSE,
               fatal |-> FALSE]))

\* One handler calling another goes through Invoke, so that mutual recursion
\* (eval, funcall, the collector run by every allocation) has a single entry.
\* The arguments are passed by value: the tuple is built before the handler
\* is entered.
Invoke(op, a) ==
    CASE a = <<>> -> NULL
      [] op = "alloc_value" -> alloc_value_impl(a[1])
      [] op = "globals_tree_insert" -> globals_tree_insert_impl(a[1], a[2], a[3])
      [] op = "globals_tree_find" -> globals_tree_find_impl(a[1], a[2])
      [] op = "globals_tree_erase" -> globals_tree_erase_impl(a[1], a[2])
      [] op = "set_var" -> set_var_impl(a[1], a[2], a[3])
      [] op = "get_var" -> get_var_impl(a[1], a[2])
      [] op = "eval" -> eval_impl(a[1], a[2])
      [] op = "funcall" -> funcall_impl(a[1], a[2], a[3])
      [] op = "vm_execute" -> vm_execute_impl(a[1], a[2], a[3])
      [] op = "dostring" -> dostring_impl(a[1], a[2])
      [] op = "read" -> read_impl(a[1], a[2], a[3])
      [] op = "load_module" -> load_module_impl(a[1], a[2])
      [] op = "load_module_instructions" ->
            load_module_instructions_impl(a[1], a[2])
      [] op = "make_string" -> make_string_impl(a[1], a[2])
      [] op = "make_symbol" -> make_symbol_impl(a[1], a[2], a[3])
      [] op = "make_databuffer" -> make_databuffer_impl(a[1])
      [] op = "env" -> env_impl(a[1])
      [] op = "get_env" -> get_env_impl(a[1])
      [] op = "equal" -> equal_impl(a[1], a[2])
      [] op = "InitState" -> InitState_impl(a[1])
      [] op = "gc_builtin" -> gc_builtin_impl(a[1])
      [] op = "lexical_frame_push" -> lexical_frame_push_impl(a[1])
      [] op = "intern" -> intern_impl(a[1], a[2])
      [] op = "intern_to_symbol" -> intern_to_symbol_impl(a[1], a[2])

\* ---- the mutator: calls a host or a native function makes ---------------
\* Every call starts from the current state with the GC pass counter reset.
Entry == [State EXCEPT !.gc_runs = 0, !.call = NoCall,
                       !.nested_self_calls = 0, !.reentries = {}]

CanCall == ~Stuck(State)
CanPush == CanCall /\ Len(operand_stack) < MaxStack

StackCells == SeqRange(operand_stack)

\* The caller pushes the constructor's result (push_op(make_...(...))).
PushResult(r) ==
    Install(IF Stuck(r.s) THEN r.s
            ELSE [push_op(r.s, r.v) EXCEPT !.ret = r.v])

Return(s, v) == Install(IF Stuck(s) THEN s ELSE [s EXCEPT !.ret = v])

MakeCons ==
    /\ CanPush
    /\ \E a \in StackCells, d \in StackCells :
          PushResult(make_cons(Entry, a, d))

MakeInteger == CanPush /\ PushResult(make_integer(Entry, 0))

MakeSymbol ==
    /\ CanPush
    /\ \E name \in Bytes :
          PushResult(make_symbol(Entry, HostPtr(<<name>>), "requires_intern"))

MakeFunction == CanPush /\ PushResult(make_function(Entry, 0))

MakeLispFunction ==
    /\ CanPush
    /\ \E impl \in StackCells : PushResult(make_lisp_function(Entry, impl))

MakeBytecodeFunction ==
    /\ CanPush
    /\ \E bytecode \in StackCells :
          PushResult(make_bytecode_function(Entry, bytecode))

MakeError ==
    /\ CanPush
    /\ \E context \in StackCells :
          PushResult(make_error(Entry, "invalid_argument_type", context))

MakeUserdata == CanPush /\ PushResult(make_userdata(Entry, 0))

MakeDatabuffer == CanPush /\ PushResult(make_databuffer(Entry))

MakeString ==
    /\ CanPush
    /\ \E len \in 0..MaxStrLen : PushResult(make_string(Entry, len))

\* The two nils init pushes stay at the bottom of the stack.
PopOp ==
    /\ CanCall
    /\ Len(operand_stack) > 2
    /\ Return(pop_op(Entry), NULL)

\* The `gc` builtin called with no argument through funcall (lisp.cpp
\* 2910-2911, 928-933): the result of make_integer(run_gc()) is pushed.
GcBuiltin ==
    LET Result(g) ==
            IF Stuck(g.s) THEN Install(g.s)
            ELSE PushResult(make_integer(g.s, g.v))
    IN  CanPush /\ Result(run_gc(Entry))

LexicalFramePush == CanCall /\ Return(lexical_frame_push(Entry), NULL)

LexicalFramePop ==
    /\ CanCall
    /\ lexical_bindings_ # nil_
    /\ Return(lexical_frame_pop(Entry), NULL)

\* `Protected p(v);` in a host scope, and the end of that scope.
ProtectedCtor ==
    /\ CanCall
    /\ Len(protecteds) < MaxProtected
    /\ \E v \in StackCells : Return(ProtectedBase_ctor(Entry, v), NULL)

ProtectedDtor ==
    /\ CanCall
    /\ Len(protecteds) > 0
    /\ Return(ProtectedBase_dtor(Entry), NULL)

\* The host interns a name (lisp.cpp 448, as load_module does at 3404).
Intern ==
    LET Result(r) == Return(r.s, r.v)
    IN  /\ CanCall
        /\ \E str \in Names : Result(intern(Entry, HostPtr(str)))

\* The reader pushes the symbol it has read (lisp.cpp 1666-1700).
ReadSymbol ==
    /\ CanPush
    /\ \E str \in Names \ {<<>>} :
          PushResult(make_symbol(Entry, HostPtr(str), "requires_intern"))

\* The arena offsets at which an entry starts.
RECURSIVE InternEntries(_, _)
InternEntries(s, i) ==
    IF i >= s.string_intern_pos_ THEN {}
    ELSE {i} \cup InternEntries(s, i + str_len(s, i) + 1)

\* The VM's PushSymbol (vm.cpp 144-149): the operand is the arena offset
\* load_module stored (lisp.cpp 3404).
PushSymbol ==
    /\ CanPush
    /\ \E name_offset_ \in InternEntries(State, 0) :
          PushResult(make_symbol(Entry, name_offset_, "stable_pointer"))

\* The `env` builtin called with no argument through funcall.
Env ==
    /\ CanPush
    /\ PushResult(env([Entry EXCEPT
                          !.call = [name |-> "env",
                                    pre |-> [type |-> type, car |-> car,
                                             cdr |-> cdr, nil_ |-> nil_,
                                             globals_tree_ |->
                                                 globals_tree_]]]))

\* The host registers its table of constants (lisp.cpp 374-382); their
\* names are literals of the host.
SetConstants ==
    /\ CanCall
    /\ \E n \in 0..MaxConstants :
          \E table \in [1..n -> [name_ : {HostPtr(<<b>>) : b \in Bytes},
                                  value_ : {0}]] :
             Return(set_constants(Entry, table), NULL)

\* The `globals` builtin (lisp.cpp 2945-2947) called through funcall.
Globals ==
    /\ CanPush
    /\ PushResult([s |-> Entry, v |-> globals_tree_])

\* The `set` builtin (lisp.cpp 2330-2337) called through funcall with two
\* arguments: funcall pops them and pushes the nil it returns.
SetVar ==
    LET Record(s2) ==
            IF lexical_find(Entry, lexical_bindings_, get_op1(Entry),
                            Cardinality(Cells)) = NULL
            THEN [s2 EXCEPT !.bound =
                     {b \in @ : b[1] # val[get_op1(State)]}
                         \cup {<<val[get_op1(State)], get_op0(State)>>}]
            ELSE s2
        Result(s1) ==
            IF Stuck(s1) THEN Install(s1)
            ELSE PushResult([s |-> Record(pop_op(pop_op(s1))),
                             v |-> s1.nil_])
    IN  /\ CanCall
        /\ Len(operand_stack) >= 4
        /\ type[get_op1(State)] = "symbol"
        /\ Result(set_var(Entry, get_op1(Entry), get_op0(Entry)))

\* The `unbind` builtin (lisp.cpp 2688-2695) called through funcall with
\* one argument, a symbol.
Unbind ==
    LET Record(s2) ==
            [s2 EXCEPT !.bound = {b \in @ : b[1] # val[get_op0(State)]}
                                     \cup {<<val[get_op0(State)], -1>>}]
        Result(s1) ==
            IF Stuck(s1) THEN Install(s1)
            ELSE PushResult([s |-> Record(pop_op(s1)), v |-> s1.nil_])
    IN  /\ CanCall
        /\ Len(operand_stack) >= 3
        /\ type[get_op0(State)] = "symbol"
        /\ Result(globals_tree_erase(Entry, get_op0(Entry)))

\* The host reads a variable (lisp.cpp 1018) through a symbol it holds.
GetVar ==
    LET Result(r) == Return(r.s, r.v)
    IN  /\ CanCall
        /\ \E symbol \in StackCells :
              /\ type[symbol] = "symbol"
              /\ Result(get_var(Entry, symbol))

\* A visitor that leaves the tree alone: it notes the pair it is given.
note_visitor(s, kvp, node) ==
    [s EXCEPT !.call.visited = Append(@, kvp)]

\* globals_tree_traverse (lisp.cpp 233) over the whole tree with that
\* visitor.
Traverse ==
    /\ CanCall
    /\ Install([globals_tree_traverse(
                    [Entry EXCEPT
                        !.call = [name |-> "traverse", visited |-> <<>>,
                                  pre |-> [type |-> type, car |-> car,
                                           cdr |-> cdr, nil_ |-> nil_,
                                           alive |-> alive,
                                           value_pool |-> value_pool,
                                           globals_tree_ |-> globals_tree_]]],
                    globals_tree_, note_visitor)
                    EXCEPT !.ret = NULL])

\* ---- specifications -----------------------------------------------------
\* The pool, the operand stack and the collector, with one constructor of
\* every shape of cell: no reference, one, two, a scratch buffer, a string.
\* ---- funcall, eval and load_module called by the host --------------------
\* arguments the host passes to funcall
MaxArgc == 2
\* calls of funcall and eval the host makes
MaxCalls == 1

MakeBuiltin ==
    /\ CanPush
    /\ \E impl \in Builtins : PushResult(make_function(Entry, impl))

LoadModule ==
    /\ CanPush
    /\ \E program \in Programs :
          /\ Len(program) <= ScratchBufferSize
          /\ Return(load_module(Entry, program), NULL)

\* funcall(obj, argc): the callee is a cell of the operand stack (lisp.cpp
\* 910-911), the arguments are its top argc cells.
Funcall ==
    /\ CanCall
    /\ calls < MaxCalls
    /\ \E obj \in StackCells, argc \in 0..MaxArgc :
          Install([funcall(Entry, obj, argc) EXCEPT
                     !.call = [name |-> "funcall", obj |-> obj,
                               argc |-> argc,
                               size |-> Len(operand_stack),
                               target |-> IF type[obj] # "function"
                                          THEN "none" ELSE mode_bits[obj]],
                     !.calls = calls + 1, !.ret = NULL])

Eval ==
    /\ CanCall
    /\ calls < MaxCalls
    /\ \E code \in StackCells :
          Install([eval(Entry, code) EXCEPT
                     !.call = [name |-> "eval", code |-> code,
                               size |-> Len(operand_stack)],
                     !.calls = calls + 1, !.ret = NULL])

\* The host conses a call form of two cells of the operand stack, a function
\* and a list of arguments, onto a stack of at most MaxFormStack cells.
MaxFormStack == 5

MakeCallForm ==
    /\ CanCall
    /\ Len(operand_stack) < MaxFormStack
    /\ \E function \in StackCells, arg_list \in StackCells :
          PushResult(make_cons(Entry, function, arg_list))

\* The `equal` builtin called with two arguments through funcall (lisp.cpp
\* 2420-2465, 928-933): the arguments are replaced with the result.
EqualBuiltin ==
    LET Result(r) ==
            IF Stuck(r.s) THEN r.s
            ELSE [push_op(pop_args(r.s, 2), r.v) EXCEPT !.ret = r.v]
    IN  /\ CanCall
        /\ calls < MaxCalls
        /\ Len(operand_stack) >= 4
        /\ Install([Result(equal(Entry, 2)) EXCEPT
                      !.call = [name |-> "equal", a |-> get_op1(State),
                                b |-> get_op0(State)],
                      !.calls = calls + 1])

\* The texts the host reads and runs.
Sources ==
    {<<OneCh>>,
     <<1>>,
     <<LParenCh, 1, RParenCh>>,
     <<LParenCh, 1, RParenCh, SpaceCh, OneCh>>,
     <<OneCh, SpaceCh, LParenCh, 1, RParenCh>>,
     <<ZeroCh, SpaceCh, OneCh>>,
     <<NilCh, SpaceCh, OneCh>>,
     <<LParenCh, RParenCh, SpaceCh, OneCh>>,
     <<QuoteCh, 1>>,
     <<LParenCh, LParenCh, RParenCh, RParenCh>>,
     <<LParenCh, LParenCh, LParenCh, RParenCh, RParenCh, RParenCh>>,
     <<LParenCh, 1, SpaceCh, OneCh, RParenCh>>}

\* The host's call of read, with the text and the depth of the stack it was
\* made at as its history.
ReadText(code) ==
    Return(read([Entry EXCEPT !.call = [name |-> "read", code |-> code,
                                        size |-> Len(operand_stack)]],
                code, 0).s,
           NULL)

\* read(code): the form is left on the operand stack.
Read ==
    /\ CanPush
    /\ \E code \in Sources : ReadText(code)

\* Texts with a malformed list: closed by the end of the text, a dot before
\* the first element, a second dot, two elements after a dot.
MalformedSources ==
    {<<LParenCh>>,
     <<LParenCh, 1>>,
     <<LParenCh, DotCh, SpaceCh, 1, RParenCh>>,
     <<LParenCh, 1, SpaceCh, DotCh, SpaceCh, 1, SpaceCh, DotCh, SpaceCh, 1,
       RParenCh>>,
     <<LParenCh, 1, SpaceCh, DotCh, SpaceCh, 1, SpaceCh, 1, RParenCh>>}

ReadMalformed ==
    /\ CanPush
    /\ \E code \in MalformedSources : ReadText(code)

\* Texts that are one string literal, with and without its closing quote.
StringSources ==
    {<<DQuoteCh, DQuoteCh>>,
     <<DQuoteCh, 1, DQuoteCh>>,
     <<DQuoteCh>>,
     <<DQuoteCh, 1>>}

ReadString ==
    /\ CanPush
    /\ \E code \in StringSources : ReadText(code)

Dostring ==
    LET Result(r) == IF Stuck(r.s) THEN r.s ELSE [r.s EXCEPT !.ret = r.v]
    IN  /\ CanCall
        /\ calls < MaxCalls
        /\ \E code \in Sources :
              Install([Result(dostring(
                          [Entry EXCEPT
                             !.call = [name |-> "dostring", code |-> code,
                                       size |-> Len(operand_stack),
                                       evaluated |-> <<>>,
                                       errors |-> <<>>]],
                          code))
                         EXCEPT !.calls = calls + 1])

\* Texts that are one let form; 1 is the character of the variable, 1 1 the
\* name of the form.
LetSources ==
    {<<LParenCh, 1, 1, SpaceCh, LParenCh, LParenCh, 1, SpaceCh, OneCh,
       RParenCh, RParenCh, SpaceCh, 1, RParenCh>>,
     <<LParenCh, 1, 1, SpaceCh, LParenCh, 1, RParenCh, SpaceCh, 1,
       RParenCh>>,
     <<LParenCh, 1, 1, SpaceCh, LParenCh, LParenCh, 1, SpaceCh, 1, 1,
       RParenCh, RParenCh, SpaceCh, 1, RParenCh>>,
     <<LParenCh, 1, 1, SpaceCh, LParenCh, LParenCh, 1, SpaceCh, OneCh,
       RParenCh, RParenCh, SpaceCh, 1, 1, RParenCh>>,
     <<LParenCh, 1, 1, SpaceCh, LParenCh, LParenCh, 1, SpaceCh, OneCh,
       RParenCh, RParenCh, SpaceCh, ZeroCh, SpaceCh, 1, RParenCh>>,
     <<LParenCh, 1, 1, RParenCh>>}

\* The host runs a let form inside the lexical frames it has pushed.
DostringLet ==
    LET Result(r) == IF Stuck(r.s) THEN r.s ELSE [r.s EXCEPT !.ret = r.v]
    IN  /\ CanCall
        /\ calls < MaxCalls
        /\ \E code \in LetSources :
              Install([Result(dostring(
                          [Entry EXCEPT
                             !.call = [name |-> "let", code |-> code,
                                       chain |-> lexical_bindings_,
                                       size |-> Len(operand_stack),
                                       evaluated |-> <<>>,
                                       errors |-> <<>>]],
                          code))
                         EXCEPT !.calls = calls + 1])

\* The texts of macro forms: "(macro a (a) a)", and "(macro 1)", whose name
\* is no symbol.
MacroSources ==
    {<<LParenCh, 1, 2, SpaceCh, 1, SpaceCh, LParenCh, 1, RParenCh, SpaceCh,
       1, RParenCh>>,
     <<LParenCh, 1, 2, SpaceCh, OneCh, RParenCh>>}

DostringMacro ==
    LET Result(r) == IF Stuck(r.s) THEN r.s ELSE [r.s EXCEPT !.ret = r.v]
    IN  /\ CanCall
        /\ calls < MaxCalls
        /\ \E code \in MacroSources :
              Install([Result(dostring(
                          [Entry EXCEPT
                             !.call = [name |-> "macro", code |-> code,
                                       macros |-> macros_,
                                       size |-> Len(operand_stack),
                                       evaluated |-> <<>>,
                                       errors |-> <<>>]],
                          code))
                         EXCEPT !.calls = calls + 1])

\* cells of the pool under the specification of let
LetPoolSize == 24
\* lexical frames the host pushes before it runs a let form
MaxFrames == 2

RECURSIVE ChainLength(_, _)
ChainLength(chain, fuel) ==
    IF fuel = 0 \/ type[chain] # "cons" THEN 0
    ELSE 1 + ChainLength(cdr[chain], fuel - 1)

\* lexical_frame_push() called by the host, MaxFrames times at most.
PushFrame ==
    /\ ChainLength(lexical_bindings_, MaxFrames) < MaxFrames
    /\ LexicalFramePush

\* cells of the pool under the specification of funcall
CallPoolSize == 12

Init == InstallInit(InitState(PoolSize))

Next ==
    \/ MakeCons \/ MakeInteger \/ MakeLispFunction \/ MakeError
    \/ MakeDatabuffer \/ MakeString \/ PopOp \/ GcBuiltin

Spec == Init /\ [][Next]_vars

\* Every constructor.
NextConstructors ==
    \/ MakeCons \/ MakeInteger \/ MakeSymbol \/ MakeFunction
    \/ MakeLispFunction \/ MakeBytecodeFunction \/ MakeError \/ MakeUserdata
    \/ MakeDatabuffer \/ MakeString \/ PopOp \/ GcBuiltin

SpecConstructors == Init /\ [][NextConstructors]_vars

\* Strings and their packing buffer.
InitString == InstallInit(InitState(StringPoolSize))

NextString == MakeString \/ MakeInteger \/ PopOp \/ GcBuiltin

SpecString == InitString /\ [][NextString]_vars

\* The roots: operand stack and lexical frames.
InitRoots == InstallInit(InitState(RootsPoolSize))

NextRoots ==
    \/ MakeLispFunction \/ MakeString \/ PopOp \/ GcBuiltin
    \/ LexicalFramePush \/ LexicalFramePop

SpecRoots == InitRoots /\ [][NextRoots]_vars

\* Protected objects.
InitProtected == InstallInit(InitState(ProtectedPoolSize))

NextProtected ==
    \/ MakeCons \/ PopOp \/ GcBuiltin \/ ProtectedCtor \/ ProtectedDtor

SpecProtected == InitProtected /\ [][NextProtected]_vars

\* The globals tree.
InitGlobals == InstallInit(InitState(GlobalsPoolSize))

NextGlobals ==
    \/ MakeSymbol \/ Globals \/ SetVar \/ PopOp

SpecGlobals == InitGlobals /\ [][NextGlobals]_vars

\* The globals tree in a pool with two free cells after init.
SpecGlobalsFull == InitRoots /\ [][NextGlobals]_vars

\* The intern arena: names interned by the host, the reader and the VM.
NextSymbols ==
    \/ Intern \/ ReadSymbol \/ PushSymbol \/ PopOp

SpecSymbols == Init /\ [][NextSymbols]_vars

\* Variables set, read and unbound by a script that drops no operand.
InitBindings == InstallInit(InitState(BindingsPoolSize))

NextBindings ==
    \/ MakeSymbol \/ SetVar \/ Unbind \/ GetVar

SpecBindings == InitBindings /\ [][NextBindings]_vars

\* The `env` builtin over the globals and the host's constants.
InitFuncall == InstallInit(InitState(CallPoolSize))
NextFuncall ==
    \/ MakeInteger \/ MakeBuiltin \/ MakeLispFunction \/ MakeCons
    \/ LoadModule \/ Funcall
SpecFuncall == InitFuncall /\ [][NextFuncall]_vars

NextEqual ==
    \/ MakeInteger \/ MakeSymbol \/ MakeCons \/ MakeFunction \/ EqualBuiltin
SpecEqual == InitFuncall /\ [][NextEqual]_vars

NextDostring == \/ MakeInteger \/ MakeSymbol \/ Dostring
SpecDostring == InitFuncall /\ [][NextDostring]_vars

NextEval == \/ Read \/ MakeBuiltin \/ MakeCallForm \/ Eval
SpecEval == InitFuncall /\ [][NextEval]_vars

\* The let form, run at the top level and inside frames of the host.
InitLet == InstallInit(InitState(LetPoolSize))
NextLet ==
    \/ MakeInteger \/ MakeSymbol \/ PushFrame \/ DostringLet
    \/ DostringMacro
SpecLet == InitLet /\ [][NextLet]_vars

\* The reader alone, on well-formed and malformed texts.
NextRead == Read \/ ReadMalformed \/ ReadString
SpecRead == InitFuncall /\ [][NextRead]_vars

InitEnv == InstallInit(InitState(EnvPoolSize))

NextEnv ==
    \/ MakeSymbol \/ Env \/ SetConstants \/ PopOp

SpecEnv == InitEnv /\ [][NextEnv]_vars

\* The `env` builtin over a tree that scripts have set variables in.
NextEnvTree ==
    \/ MakeSymbol \/ SetVar \/ Env \/ SetConstants

SpecEnvTree == InitBindings /\ [][NextEnvTree]_vars

\* ---- properties ---------------------------------------------------------
FreeCount == Len(FreeList(State))

\* The references the collector follows out of a cell (gc_mark_value).
Refs(s, c) ==
    CASE s.type[c] = "cons" -> {s.car[c], s.cdr[c]}
      [] s.type[c] = "function"
           /\ s.mode_bits[c] \in {"lisp_function", "lisp_bytecode_function"} ->
             {s.car[c], s.cdr[c]}
      [] s.type[c] = "string" -> {s.car[c]}
      [] s.type[c] = "error" -> {s.car[c]}
      [] OTHER -> {}

RECURSIVE Closure(_, _)
Closure(s, S) ==
    LET N == S \cup UNION {Refs(s, c) : c \in S}
    IN  IF N = S THEN S ELSE Closure(s, N)

Roots(s) ==
    SeqRange(s.operand_stack) \cup
    {s.globals_tree_, s.lexical_bindings_, s.macros_, s.this_, s.nil_, s.oom_}

Reachable(s) == Closure(s, Roots(s))

\* C1: pool conservation.  Every cell is either on the free list (exactly
\* once), not alive and tagged heap-node, or off the list, alive and tagged
\* otherwise; so the free and the live cells add up to the pool.
PoolConservation ==
    LET fl == FreeList(State) IN
    /\ Len(fl) = Cardinality(SeqRange(fl))
    /\ \A c \in Cells :
          IF c \in SeqRange(fl)
          THEN ~alive[c] /\ type[c] = "heap_node"
          ELSE alive[c] /\ type[c] # "heap_node"
    /\ Cardinality(FreeCells(State)) + Cardinality(LiveCells(State))
         = Cardinality(Cells)

\* A call that ran the collector has returned, cells were freed and a cell
\* was handed out again.
PoolConservationWitness ==
    /\ ~Stuck(State)
    /\ gc_runs > 0
    /\ FreeCells(State) # {}
    /\ ret # NULL /\ ret # oom_

ProtectedSurvives ==
    \A p \in DOMAIN protecteds : alive[protecteds[p].val_]

\* C4: the car and the cdr of every live cons reachable from the roots are
\* live cells.
NoDanglingCons ==
    ~Stuck(State) =>
        \A c \in Reachable(State) :
            (alive[c] /\ type[c] = "cons") => alive[car[c]] /\ alive[cdr[c]]

\* C5: allocation protocol.  A constructor that makes one allocation runs no
\* GC pass when the free list is not empty and takes its head, and runs
\* exactly one pass when it is empty; a constructor returns the OOM sentinel
\* only when the list was and still is empty, and then no cell of the pool
\* has changed; any other result is a live cell.
SingleAllocation ==
    \/ MakeCons \/ MakeInteger \/ MakeSymbol \/ MakeFunction
    \/ MakeLispFunction \/ MakeBytecodeFunction \/ MakeError \/ MakeUserdata

AnyConstructor == SingleAllocation \/ MakeDatabuffer \/ MakeString

PoolUnchanged ==
    /\ type' = type /\ alive' = alive /\ mark_bit' = mark_bit
    /\ mode_bits' = mode_bits /\ next_' = next_ /\ car' = car /\ cdr' = cdr
    /\ val' = val /\ code_' = code_ /\ value_pool' = value_pool

AllocationProtocol ==
    [][/\ (SingleAllocation /\ ~Stuck(State)')
            => /\ gc_runs' = (IF value_pool = NULL THEN 1 ELSE 0)
               /\ value_pool # NULL
                    => ret' = value_pool /\ value_pool' = next_[value_pool]
       /\ (AnyConstructor /\ ~Stuck(State)')
            => /\ ret' = oom_
                    => value_pool = NULL /\ gc_runs' >= 1 /\ PoolUnchanged
               /\ ret' # oom_ => alive'[ret'] /\ type'[ret'] # "heap_node"
      ]_vars

\* C6: nil and the OOM sentinel are the cells init allocated, and they stay
\* allocated; no other cell is tagged nil.
NilAndOomStayAllocated ==
    /\ [](/\ alive[nil_] /\ type[nil_] = "nil"
          /\ alive[oom_] /\ type[oom_] = "error"
          /\ nil_ \notin FreeCells(State)
          /\ oom_ \notin FreeCells(State)
          /\ \A c \in Cells : type[c] = "nil" => c = nil_)
    /\ [][nil_' = nil_ /\ oom_' = oom_]_vars

\* The collector ran and freed cells while the sentinel was on no stack slot.
NilAndOomWitness ==
    /\ ~Stuck(State)
    /\ gc_runs > 0
    /\ FreeCells(State) # {}
    /\ oom_ \notin SeqRange(operand_stack)

\* C7: the mark phase ends on every object graph.
MarkTerminates == ~hung

\* C8: after a completed GC run no cell has its mark bit set.
NoMarkLeft == ~Stuck(State) => \A c \in Cells : ~mark_bit[c]

\* C9 as stated: the gc builtin never returns with fewer free cells than it
\* was called with.
GcBuiltinNeverLosesFreeCells ==
    [][(GcBuiltin /\ ~Stuck(State)') => FreeCount' >= FreeCount]_vars

\* C9 as amended: the builtin allocates the integer it returns, so it returns
\* with at most one free cell fewer; with an integer n as result the count
\* is the count before plus the n cells collected minus that one cell.
GcBuiltinFreeCount ==
    [][(GcBuiltin /\ ~Stuck(State)') =>
          /\ FreeCount' >= FreeCount - 1
          /\ (ret' # oom_ => /\ type'[ret'] = "integer"
                             /\ FreeCount' = FreeCount + val'[ret'] - 1)
          /\ (ret' = oom_ => FreeCount' = 0 /\ FreeCount = 0)
      ]_vars

\* The builtin returned the number of cells it collected, at least one.
GcBuiltinWitness ==
    /\ ~Stuck(State)
    /\ ret # NULL
    /\ type[ret] = "integer"
    /\ val[ret] > 0

\* C10: every live string cell references a live data-buffer cell.
StringsHaveLiveBuffers ==
    ~Stuck(State) =>
        \A c \in Cells :
            (alive[c] /\ type[c] = "string")
                => alive[car[c]] /\ type[car[c]] = "data_buffer"

\* C11: every live data-buffer cell holds a scratch buffer of its own, and the
\* host has handed out exactly as many scratch buffers as there are live
\* data-buffer cells: a buffer is released when the sweep frees its cell and
\* never before.
DataBufferCells == {c \in Cells : alive[c] /\ type[c] = "data_buffer"}

ScratchOwnership ==
    ~Stuck(State) =>
        /\ \A c \in DataBufferCells :
              val[c] \in DOMAIN scratch /\ scratch[val[c]].held
        /\ \A c, d \in DataBufferCells : val[c] = val[d] => c = d
        /\ Cardinality({b \in DOMAIN scratch : scratch[b].held})
             = Cardinality(DataBufferCells)

\* The sweep released the first scratch buffer while a live data-buffer cell
\* still holds the second.
ScratchOwnershipWitness ==
    /\ ~Stuck(State)
    /\ gc_runs > 0
    /\ ~scratch[1].held
    /\ \E c \in DataBufferCells : val[c] = 2 /\ scratch[2].held

\* The outcome of a second call to intern, r2, after the first one, r1: the
\* same pointer, and an arena left as the first call left it.
InternTwice(r1, r2) ==
    /\ ~Stuck(r2.s)
    /\ r2.v = r1.v
    /\ r2.s.interns_ = r1.s.interns_
    /\ r2.s.string_intern_pos_ = r1.s.string_intern_pos_

\* C12: for every string, at every fill level of the arena at which a call
\* to intern succeeds, a second call with the same string returns the same
\* pointer and appends nothing.
InternIdentity ==
    ~Stuck(State) =>
        \A str \in Names :
            LET Second(r1) ==
                    ~Stuck(r1.s) => InternTwice(r1, intern(r1.s, HostPtr(str)))
            IN  Second(intern(State, HostPtr(str)))

SymbolCells == {c \in Cells : alive[c] /\ type[c] = "symbol"}

\* C13: the name pointer of every symbol cell lies inside the intern arena,
\* and two symbol cells with the same name hold the same pointer.
SymbolsInterned ==
    ~Stuck(State) =>
        /\ \A c \in SymbolCells : InArena(val[c])
        /\ \A c, d \in SymbolCells :
              c_str(State, val[c]) = c_str(State, val[d]) => val[c] = val[d]

\* What a read of a name returns against the last set or unbind of it.
GetReturns(r, v) ==
    /\ ~Stuck(r.s)
    /\ IF v # -1 THEN r.v = v
       ELSE /\ r.s.type[r.v] = "error"
            /\ r.s.code_[r.v] \in {"undefined_variable_access",
                                   "out_of_memory"}

\* C14: with no lexical binding of k, a get of k returns the value of the
\* last set of k, and after an unbind of k an undefined_variable_access
\* error (or the OOM sentinel when the error cannot be allocated), whatever
\* other names were set or unbound in between.
GlobalsSetGet ==
    ~Stuck(State) =>
        \A symbol \in StackCells : \A b \in bound :
            (type[symbol] = "symbol" /\ val[symbol] = b[1]
               /\ lexical_bindings_ = nil_)
                => GetReturns(get_var(State, symbol), b[2])

\* ---- funcall -------------------------------------------------------------
\* C15: funcall(obj, argc) replaces the argc arguments on top of the operand
\* stack with one result, whatever obj is: when the call returns, the depth
\* of the stack is the depth before the call minus argc plus one.
FuncallDepth ==
    (call.name = "funcall" /\ ~Stuck(State)) =>
        Len(operand_stack) = (call.size - call.argc) + 1
\* The contexts funcall is entered in: the host's, and those of a caller
\* that runs inside a frame of a function `this` with n arguments.
CallerContexts ==
    {[this |-> this_, break_loc |-> arguments_break_loc_,
      argc |-> current_fn_argc_]}
        \cup {[this |-> f, break_loc |-> Len(operand_stack) - 1, argc |-> n] :
                 f \in StackCells, n \in 1..MaxArgc}

InContext(s, c) ==
    [s EXCEPT !.this_ = c.this, !.arguments_break_loc_ = c.break_loc,
              !.current_fn_argc_ = c.argc]

ContextKept(r, s) ==
    /\ r.this_ = s.this_
    /\ r.lexical_bindings_ = s.lexical_bindings_
    /\ r.arguments_break_loc_ = s.arguments_break_loc_
    /\ r.current_fn_argc_ = s.current_fn_argc_

\* C16: whatever the target (native, interpreted, bytecode, not callable)
\* and the argument count, a call of funcall that returns leaves `this`,
\* the lexical-binding chain, the argument-break location and the current
\* argc as they were when it was entered.
FuncallRestoresContext ==
    (calls = 0 /\ ~Stuck(State)) =>
        \A obj \in StackCells, argc \in 0..(MaxArgc + 1),
           c \in CallerContexts :
            LET Kept(s, r) == ~Stuck(r) => ContextKept(r, s)
                Called(s) == Kept(s, funcall(s, obj, argc))
            IN  Called(InContext(Entry, c))

\* A call of a bytecode function that opened a lexical frame and never
\* closed it has returned, and of an interpreted function that ran a form.
FuncallRestoresContextWitness ==
    /\ call.name = "funcall" /\ ~Stuck(State)
    /\ this_ = nil_ /\ lexical_bindings_ = nil_
    /\ arguments_break_loc_ = Indeterminate /\ current_fn_argc_ = 0
    /\ \/ /\ call.target = "lisp_bytecode_function"
          /\ HasBuffer(State, cdr[car[call.obj]])
          /\ scratch[val[cdr[car[call.obj]]]].data[1] = LexicalFramePushOp
       \/ /\ call.target = "lisp_function"
          /\ type[car[call.obj]] = "cons"
\* C17: a TailCall, TailCall1, TailCall2 or TailCall3 instruction whose
\* target is the running function, with the argc of the running frame,
\* re-enters the function at start_offset; it never enters funcall, so no
\* activation of funcall and vm_execute is nested in the running one.
TailCallsDoNotNest == nested_self_calls = 0
\* ---- the `equal` builtin -------------------------------------------------
\* Structural equality of two values: pairs are equal when their cars and
\* their cdrs are, leaves as `equal` compares them.
RECURSIVE StructEqual(_, _, _)
StructEqual(a, b, fuel) ==
    IF type[a] # type[b] THEN FALSE
    ELSE IF type[a] = "cons"
    THEN /\ fuel > 0
         /\ StructEqual(car[a], car[b], fuel - 1)
         /\ StructEqual(cdr[a], cdr[b], fuel - 1)
    ELSE equal_values(State, a, b) = 1

\* C20: applied to two cons cells, `equal` returns 1 when they have the same
\* shape and pairwise equal leaves, and 0 otherwise.
EqualIsStructural ==
    (/\ call.name = "equal" /\ ~Stuck(State)
     /\ type[ret] = "integer"
     /\ type[call.a] = "cons" /\ type[call.b] = "cons")
        => (val[ret] = 1 <=> StructEqual(call.a, call.b, Cardinality(Cells)))

\* ---- dostring ---------------------------------------------------------
\* The top-level forms of a text, found without the reader: the offset after
\* the form that begins at offset i.
RECURSIVE SkipSpaces(_, _)
SkipSpaces(code, i) ==
    IF CharAt(code, i) = SpaceCh THEN SkipSpaces(code, i + 1) ELSE i

RECURSIVE ListEnd(_, _, _)
ListEnd(code, i, open) ==
    IF i >= Len(code) THEN i
    ELSE IF code[i + 1] = LParenCh THEN ListEnd(code, i + 1, open + 1)
    ELSE IF code[i + 1] = RParenCh
    THEN IF open = 1 THEN i + 1 ELSE ListEnd(code, i + 1, open - 1)
    ELSE ListEnd(code, i + 1, open)

RECURSIVE FormEnd(_, _)
FormEnd(code, i) ==
    IF CharAt(code, i) = LParenCh THEN ListEnd(code, i + 1, 1)
    ELSE IF CharAt(code, i) = QuoteCh
    THEN FormEnd(code, SkipSpaces(code, i + 1))
    ELSE SymbolEnd(code, i)

\* The offsets at which the reading of each top-level form begins.
RECURSIVE TopLevelForms(_, _)
TopLevelForms(code, i) ==
    IF SkipSpaces(code, i) >= Len(code) THEN <<>>
    ELSE <<i>> \o TopLevelForms(code, FormEnd(code, SkipSpaces(code, i)))

\* C18: dostring evaluates the top-level forms of the text in order; without
\* an error it has evaluated every form when it returns, and with an error it
\* has called on_error once, with the error it returns, and evaluated nothing
\* after the form that failed.
DostringRunsEveryForm ==
    (call.name = "dostring" /\ ~Stuck(State)) =>
        LET forms == TopLevelForms(call.code, 0)
        IN  /\ Len(call.evaluated) <= Len(forms)
            /\ call.evaluated = SubSeq(forms, 1, Len(call.evaluated))
            /\ Len(call.errors) <= 1
            /\ call.errors = <<>> => call.evaluated = forms
            /\ call.errors # <<>> =>
                  /\ call.errors = <<ret>>
                  /\ type[ret] = "error"

\* ---- the context of an error -----------------------------------------
\* A form that eval calls as a function (lisp.cpp 2210-2283): a pair whose
\* head is not the quote symbol.
IsCallForm(c) ==
    /\ type[c] = "cons"
    /\ ~(type[car[c]] = "symbol"
         /\ c_str(State, val[car[c]]) \in {QuoteStr, LetStr, MacroStr})

\* The call form passes the value of its one argument, itself a call form,
\* through the builtin `eval`: an error that the argument yields is returned
\* by the enclosing call.
Propagates(c) ==
    /\ IsCallForm(c)
    /\ type[car[c]] = "function"
    /\ mode_bits[car[c]] = "cpp_function"
    /\ val[car[c]] = EvalImpl
    /\ type[cdr[c]] = "cons"
    /\ cdr[cdr[c]] = nil_
    /\ IsCallForm(car[cdr[c]])

\* The first cell of an argument list that is neither a pair nor nil, nil
\* when the list is proper.
RECURSIVE ImproperTail(_, _)
ImproperTail(l, fuel) ==
    IF l = nil_ \/ fuel = 0 THEN nil_
    ELSE IF type[l] # "cons" THEN l
    ELSE ImproperTail(cdr[l], fuel - 1)

\* The innermost call form that yields the error of the call form c.
RECURSIVE InnermostCall(_, _)
InnermostCall(c, fuel) ==
    IF fuel > 0 /\ Propagates(c)
    THEN InnermostCall(car[cdr[c]], fuel - 1)
    ELSE c

\* The head and the arguments of the call form c evaluate to themselves and
\* are no errors: an error that c yields is made by the call of its head.
RECURSIVE PlainList(_, _)
PlainList(l, fuel) ==
    \/ type[l] # "cons" \/ fuel = 0
    \/ /\ type[car[l]] \notin {"cons", "symbol", "error"}
       /\ PlainList(cdr[l], fuel - 1)

PlainCall(c) ==
    /\ type[car[c]] \notin {"cons", "symbol"}
    /\ PlainList(cdr[c], Cardinality(Cells))

\* The statement of C19 for every call form: no error leaves the evaluation
\* of a call form with a nil context, eval has set the context of an error
\* that had none and kept any other.
EvalErrorHasContext ==
    (/\ call.name = "eval"
     /\ ~Stuck(State)
     /\ IsCallForm(call.code)
     /\ type[get_op0(State)] = "error") =>
        car[get_op0(State)] # nil_

\* C19: when the function call of a call form, one whose argument list is a
\* proper list, returns an error, the error leaves eval with a context.  An
\* error cell made by the call of the innermost form of a chain of calls,
\* a form whose head and arguments evaluate to themselves, has that form as
\* context: that form's eval set the context and the enclosing calls kept it.
\* The shared error cell oom_ has the context it got from the first call form
\* that returned it.
EvalAttachesContext ==
    (/\ call.name = "eval"
     /\ ~Stuck(State)
     /\ IsCallForm(call.code)
     /\ type[get_op0(State)] = "error"
     /\ ImproperTail(cdr[call.code], Cardinality(Cells)) = nil_) =>
        LET e == get_op0(State)
            form == InnermostCall(call.code, Cardinality(Cells))
        IN  /\ car[e] # nil_
            /\ (/\ e # oom_
                /\ PlainCall(form)
                /\ ImproperTail(cdr[form], Cardinality(Cells)) = nil_)
                  => car[e] = form

EvalAttachesContextWitness ==
    /\ call.name = "eval"
    /\ ~Stuck(State)
    /\ Propagates(call.code)
    /\ type[get_op0(State)] = "error"
    /\ get_op0(State) # oom_
    /\ car[get_op0(State)] = car[cdr[call.code]]
    /\ car[get_op0(State)] # call.code

\* ---- the shared out-of-memory error ---------------------------------------
\* C33: the shared OOM sentinel is never modified after init: in every
\* reachable state it is a live error cell whose code is out_of_memory and
\* whose context is nil.
OomSentinelIntact ==
    /\ alive[oom_]
    /\ type[oom_] = "error"
    /\ code_[oom_] = "out_of_memory"
    /\ car[oom_] = nil_

\* ---- the arguments of the running frame ----------------------------------
\* C38: in a frame of argc arguments whose last argument is the operand at
\* break_loc (funcall sets both, lisp.cpp 911, 948-949, 964-965; the body may
\* have pushed operands above break_loc since), get_arg(n) is the n-th
\* argument when n < argc and nil otherwise, and it reads no operand outside
\* the window [break_loc - (argc - 1), break_loc].
GetArgWindow ==
    ~Stuck(State) =>
        \A break_loc \in 0..(Len(operand_stack) - 1), argc \in 0..MaxArgc,
           n \in 0..MaxArgc :
            argc <= break_loc + 1 =>
                LET r == get_arg([Entry EXCEPT
                                    !.arguments_break_loc_ = break_loc,
                                    !.current_fn_argc_ = argc], n)
                IN  /\ ~Stuck(r.s)
                    /\ r.v = IF n < argc
                             THEN operand_stack[(break_loc - (argc - 1)) + n + 1]
                             ELSE nil_

\* ---- the operand stack across dostring -----------------------------------
\* C36: dostring leaves the depth of the operand stack unchanged: when a
\* call returns, with or without an error, the stack is as deep as it was
\* when the call was made (after init and any sequence of such calls, the
\* two nils init pushed).
DostringKeepsDepth ==
    (call.name = "dostring" /\ ~Stuck(State)) =>
        Len(operand_stack) = call.size

\* ---- the reader ------------------------------------------------------------
\* C37: a call of read that returns has pushed exactly one value on the
\* operand stack, the form, nil at the end of the text, or one error for a
\* malformed list.
ReadPushesOne ==
    (call.name = "read" /\ ~Stuck(State)) =>
        Len(operand_stack) = call.size + 1

\* A string literal of the text that the end of the text closes.
Unterminated(code) ==
    /\ Len(code) >= 1
    /\ code[1] = DQuoteCh
    /\ \A i \in 2..Len(code) : code[i] # DQuoteCh

\* C32: reading a string literal that has no closing quote ends at the end
\* of the text with one error value on the operand stack; the reader reads no
\* byte after the terminating NUL of the text and writes none after the end
\* of the scratch buffer.
UnterminatedStringIsOneError ==
    (call.name = "read" /\ Unterminated(call.code)) =>
        /\ ~Stuck(State)
        /\ Len(operand_stack) = call.size + 1
        /\ type[get_op0(State)] = "error"

\* ---- the globals tree when the pool is exhausted --------------------------
\* The cells in the places of the tree: the root, the nodes, their key-value
\* pairs, their pairs of children and their children.
RECURSIVE TreeParts(_, _)
TreeParts(node, fuel) ==
    IF fuel = 0 \/ type[node] # "cons" THEN {node}
    ELSE {node, car[node], cdr[node]}
            \cup (IF type[cdr[node]] # "cons" THEN {}
                  ELSE TreeParts(car[cdr[node]], fuel - 1)
                          \cup TreeParts(cdr[cdr[node]], fuel - 1))

\* C35: whatever allocation of globals_tree_insert runs out of memory, the
\* root and every child slot of the globals tree hold nil or a node
\* ((key . value) . (left . right)): the shared OOM error cell is not the
\* root, a node, a key-value pair, a pair of children or a child.
GlobalsTreeSurvivesOom ==
    ~Stuck(State) =>
        oom_ \notin TreeParts(globals_tree_, Cardinality(Cells))

\* ---- a collection inside a traversal of the globals tree ------------------
\* The nodes of the tree of the state p.
RECURSIVE NodesOf(_, _, _)
NodesOf(p, node, fuel) ==
    IF node = p.nil_ \/ fuel = 0 \/ ~IsTreeNode(p, node) THEN {}
    ELSE {node} \cup NodesOf(p, left_subtree(p, node), fuel - 1)
                \cup NodesOf(p, right_subtree(p, node), fuel - 1)

\* C34: whatever collections the allocations of `env` run while it traverses
\* the globals tree, every node of the tree stays a live node with a live
\* key-value pair and a live pair of children, and when `env` returns every
\* left/right link is what it was before the call.
EnvKeepsTree ==
    call.name = "env" =>
        \A n \in NodesOf(call.pre, call.pre.globals_tree_,
                         Cardinality(Cells)) :
            /\ alive[n] /\ type[n] = "cons"
            /\ alive[car[n]] /\ type[car[n]] = "cons"
            /\ alive[cdr[n]] /\ type[cdr[n]] = "cons"
            /\ ~Stuck(State) =>
                  /\ car[n] = call.pre.car[n] /\ cdr[n] = call.pre.cdr[n]
                  /\ left_subtree(State, n) = left_subtree(call.pre, n)
                  /\ right_subtree(State, n) = right_subtree(call.pre, n)

transmit(P, m) == [P EXCEPT !.out = Append(@, m)]

\* receive(NewLevelIdle)
receive_idle(P) == [P EXCEPT !.me.peer_ready_ = TRUE]

\* receive(NewLevelSyncSeed): the loop that transmits the local seed
RECURSIVE receive_spam(_, _)
receive_spam(P, i) ==
    IF i >= required_matching_syncs THEN P
    ELSE receive_spam(
             transmit([P EXCEPT !.me.spam_unasked =
                                    @ \/ ~P.me.peer_ready_],
                      SyncSeedMsg(P.me.critical_state, P.me.difficulty_)),
             i + 1)

\* the branch of a seed that differs, without the reset of the count
receive_adopt_keep_count(P, m) ==
    [P EXCEPT !.me.difficulty_ = m.difficulty_,
              !.me.critical_state = m.random_state_]

\* receive(NewLevelSyncSeed): the branch of a seed that differs
receive_adopt(P, m) ==
    [P EXCEPT !.me.difficulty_ = m.difficulty_,
              !.me.critical_state = m.random_state_,
              !.me.matching_syncs_received_ = 0]

\* receive(NewLevelSyncSeed)
receive_sync_seed(P, sync_seed) ==
    LET peer_seed == sync_seed.random_state_
        H == [P EXCEPT !.me.last = sync_seed,
                       !.me.last_local = P.me.critical_state,
                       !.me.run = IF P.me.critical_state = peer_seed
                                  THEN @ + 1 ELSE 0]
    IN  IF H.me.critical_state = peer_seed
        THEN LET Q == [H EXCEPT !.me.matching_syncs_received_ = @ + 1]
             IN  IF Q.me.matching_syncs_received_ = required_matching_syncs
                 THEN LET R == receive_spam(Q, 0)
                      IN  [R EXCEPT !.me.ready_ = TRUE,
                                    !.me.ready_run = R.me.run,
                                    !.me.ready_seed = R.me.critical_state,
                                    !.me.synced = TRUE]
                 ELSE Q
        ELSE receive_adopt(H, sync_seed)

\* net_event::poll_messages: every message of the receive queue, oldest
\* first, goes to the receive overload of its type.
RECURSIVE poll_messages(_, _)
poll_messages(P, queue) ==
    IF queue = <<>> THEN P
    ELSE poll_messages(
             IF Head(queue).type = "new_level_idle" THEN receive_idle(P)
             ELSE receive_sync_seed(P, Head(queue)),
             Tail(queue))

\* update: the seed of the timer branch, sent once the peer is known to
\* be ready
update_seed(P) ==
    IF P.me.peer_ready_
    THEN transmit([P EXCEPT !.me.update_unasked = @ \/ ~P.me.peer_ready_],
                  SyncSeedMsg(P.me.critical_state, P.me.difficulty_))
    ELSE P

\* update(pfrm, game, delta) of a console whose receive queue holds queue
update(me, connected, delta, queue) ==
    LET P0 == [me |-> me, out |-> <<>>]
        P1 == IF connected
              THEN LET T == [P0 EXCEPT !.me.timer_ = @ + delta]
                       U == IF T.me.timer_ > Period
                            THEN update_seed(
                                     transmit([T EXCEPT !.me.timer_ =
                                                            @ - Period],
                                              IdleMsg))
                            ELSE T
                   IN  poll_messages(U, queue)
              ELSE [P0 EXCEPT !.me.ready_ = TRUE,
                              !.me.ready_seed = me.critical_state]
    IN  IF P1.me.ready_ THEN [P1 EXCEPT !.me.left = TRUE] ELSE P1

\* ---- NewLevelIdleState: actions ----

\* One frame of console p: update runs with the messages that have
\* arrived; what it transmits goes on the link to the other console.
Update(p) ==
    \E delta \in Deltas :
        LET q == Other(p)
            n == net.arrived[p]
            P == update(net.peer[p], net.connected, delta,
                        SubSeq(net.chan[p], 1, n))
            over == /\ Len(P.out) <= 2
                    /\ Len(net.chan[q]) + Len(P.out) > MaxInFlight
        IN  /\ ~net.overflow
            /\ ~net.peer[p].left
            /\ net' = IF net.connected /\ over
                      THEN [net EXCEPT !.overflow = TRUE]
                      ELSE [net EXCEPT
                               !.peer[p] = P.me,
                               !.chan[p] = SubSeq(@, n + 1, Len(@)),
                               !.arrived[p] = 0,
                               !.chan[q] = IF net.connected
                                           THEN @ \o P.out ELSE @]
            /\ UNCHANGED interp

\* The link hands the oldest message in flight to console p; a console
\* that has left the state drops it.
Deliver(p) ==
    /\ ~net.overflow /\ net.connected
    /\ net.arrived[p] < Len(net.chan[p])
    /\ net' = IF net.peer[p].left
              THEN [net EXCEPT !.chan[p] = Tail(@)]
              ELSE [net EXCEPT !.arrived[p] = @ + 1]
    /\ UNCHANGED interp

\* The link goes down.
Disconnect ==
    /\ ~net.overflow /\ net.connected
    /\ net' = [net EXCEPT !.connected = FALSE,
                          !.chan = [p \in Peers |-> <<>>],
                          !.arrived = [p \in Peers |-> 0]]
    /\ UNCHANGED interp

\* Two consoles over a link that delivers in order and loses nothing.
NextSync == \E p \in Peers : Update(p) \/ Deliver(p)
SpecSync == Init /\ [][NextSync]_vars

\* The same with weakly fair frames and weakly fair delivery.
SpecSyncFair ==
    /\ SpecSync
    /\ \A p \in Peers : WF_vars(Update(p)) /\ WF_vars(Deliver(p))

\* messages the receive queue of a console holds when update polls it
MaxQueue == 2

Messages ==
    {IdleMsg} \cup {SyncSeedMsg(seed, d) : seed \in Seeds, d \in Difficulties}

Queues ==
    UNION {[1 .. n -> Messages] : n \in 0 .. MaxQueue}

\* One frame of console 1 seen from its handlers: update runs with any
\* messages in its receive queue.
Frame ==
    \E delta \in Deltas, queue \in Queues :
        /\ ~net.peer[1].left
        /\ net' = [net EXCEPT !.peer[1] =
                      update(net.peer[1], net.connected, delta, queue).me]
        /\ UNCHANGED interp

NextPeer == Frame \/ Disconnect
SpecPeer == Init /\ [][NextPeer]_vars

\* C40: two connected consoles that start from different seeds, over a
\* link that delivers in order and fairly, both become ready and leave
\* the state, and the seeds they held when they became ready are equal.
\* (Behaviours that fill the link beyond MaxInFlight are not followed.)
BothLeft == \A p \in Peers : net.peer[p].left

ReadySeedsAgree ==
    (\A p \in Peers : net.peer[p].ready_) =>
        net.peer[1].ready_seed = net.peer[2].ready_seed

SyncReachesAgreement ==
    /\ <>(BothLeft \/ net.overflow)
    /\ []ReadySeedsAgree

\* The parts of the per-console statement that hold of every console p.
ReadyAfterTenMatches(p) ==
    (net.peer[p].ready_ /\ net.connected) =>
        /\ net.peer[p].synced
        /\ net.peer[p].ready_run >= required_matching_syncs

DifferentSeedAdopted(p) ==
    (/\ net.peer[p].last.type = "new_level_sync_seed"
     /\ net.peer[p].last.random_state_ # net.peer[p].last_local) =>
        /\ net.peer[p].critical_state = net.peer[p].last.random_state_
        /\ net.peer[p].difficulty_ = net.peer[p].last.difficulty_
        /\ net.peer[p].matching_syncs_received_ = 0
        /\ net.peer[p].run = 0

TreeKeys ==
    {val[car[car[n]]] :
        n \in NodesOf(State, globals_tree_, Cardinality(Cells))}

\* C21: globals_tree_find of a name that is not a key of the tree returns
\* an error cell with code undefined_variable_access (the shared
\* out-of-memory error when that cell cannot be allocated), whatever the
\* tree holds, the empty tree included.
FindMissIsError ==
    ~Stuck(State) =>
        \A symbol \in StackCells :
            (type[symbol] = "symbol" /\ val[symbol] \notin TreeKeys) =>
                LET r == globals_tree_find(State, symbol)
                IN  \/ Stuck(r.s)
                    \/ /\ r.s.type[r.v] = "error"
                       /\ r.s.code_[r.v] \in {"undefined_variable_access",
                                              "out_of_memory"}

\* ---- make_list (lisp.cpp 627-642) ------------------------------------------
\* longest list the host asks make_list for
MaxListLen == 4

\* lisp.cpp 633-640: the loop, `left` cells still to prepend to head
RECURSIVE make_list_loop(_, _)
make_list_loop(r, left) ==
    IF Stuck(r.s) \/ left = 0 THEN r
    ELSE LET c == make_cons(push_op(r.s, r.v), r.s.nil_, r.v)
         IN  make_list_loop([s |-> pop_op(c.s), v |-> c.v], left - 1)

make_list(s, length) ==
    IF length = 0 THEN [s |-> s, v |-> s.nil_]
    ELSE make_list_loop(make_cons(s, s.nil_, s.nil_), length - 1)

\* The host builds a list and pushes it.
MakeList ==
    /\ CanPush
    /\ \E length \in 0 .. MaxListLen :
          PushResult(make_list([Entry EXCEPT
                                   !.call = [name |-> "make_list",
                                             length |-> length,
                                             size |-> Len(operand_stack)]],
                               length))

NextList == MakeList \/ PopOp
SpecList == InitRoots /\ [][NextList]_vars

\* The cells of the list v, as far as n cells.
RECURSIVE ListCells(_, _)
ListCells(v, n) ==
    IF n = 0 \/ type[v] # "cons" THEN <<>>
    ELSE <<v>> \o ListCells(cdr[v], n - 1)

\* C30: make_list(n) returns a nil-terminated list of exactly n cons cells
\* whose cars are all nil, or the OOM sentinel itself when the pool is
\* exhausted; it leaves the depth of the operand stack as it was.
MakeListProperOrOom ==
    (call.name = "make_list" /\ ~Stuck(State)) =>
        /\ Len(operand_stack) = call.size + 1
        /\ \/ ret = oom_
           \/ LET cells == ListCells(ret, call.length + 1)
              IN  /\ Len(cells) = call.length
                  /\ \A i \in 1 .. Len(cells) : car[cells[i]] = nil_
                  /\ IF cells = <<>> THEN ret = nil_
                     ELSE cdr[cells[Len(cells)]] = nil_

\* ---- the macro form ----------------------------------------------------------
\* The macro form of the text has a name: "(macro a (a) a)".
NamedMacro(code) == code[5] = 1

\* The definition is the first entry of the macro list, the list before the
\* form was evaluated its tail.
MacroRegistered ==
    /\ type[macros_] = "cons"
    /\ cdr[macros_] = call.macros
    /\ type[car[macros_]] = "cons"
    /\ type[car[car[macros_]]] = "symbol"
    /\ c_str(State, val[car[car[macros_]]]) = <<1>>

\* C27: evaluating (macro NAME (PARAMS...) BODY) prepends the definition to
\* the macro list, and the value of the form is nil.
MacroYieldsNil ==
    (call.name = "macro" /\ ~Stuck(State) /\ NamedMacro(call.code)) =>
        /\ MacroRegistered
        /\ ret = nil_

\* ---- the entry counter --------------------------------------------------------
\* C28: every eval and dostring that has returned has decremented the entry
\* counter it incremented: between the calls of the host the counter is 0
\* and is_executing() is false.
EntryCountBalanced ==
    ~Stuck(State) => interp_entry_count_ = 0

\* ---- erasing a binding -------------------------------------------------------
\* The bindings of the tree of the state p: the pairs of a name and a value.
BindingsOf(p) ==
    {<<p.val[p.car[p.car[n]]], p.cdr[p.car[n]]>> :
        n \in NodesOf(p, p.globals_tree_, Cardinality(CellsOf(p)))}

\* Every node of the tree of p is a live node with a live pair of a symbol
\* and a value, and no name is the key of two nodes.
TreeIntact(p) ==
    LET nodes == NodesOf(p, p.globals_tree_, Cardinality(CellsOf(p)))
    IN  /\ p.globals_tree_ = p.nil_ \/ IsKeyedNode(p, p.globals_tree_)
        /\ \A n \in nodes :
              /\ p.alive[n] /\ p.alive[p.car[n]] /\ p.alive[p.cdr[n]]
              /\ p.alive[p.car[p.car[n]]]
              /\ \A child \in {left_subtree(p, n), right_subtree(p, n)} :
                    child = p.nil_ \/ IsKeyedNode(p, child)
        /\ Cardinality(nodes) = Cardinality({b[1] : b \in BindingsOf(p)})
        /\ Cardinality(nodes) = Cardinality(BindingsOf(p))

\* What globals_tree_erase(key) makes of the intact tree of the state p.
ErasedExactly(p, key, r) ==
    /\ ~r.ub /\ ~r.hung
    /\ TreeIntact(r)
    /\ BindingsOf(r) = {b \in BindingsOf(p) : b[1] # p.val[key]}

\* C22: globals_tree_erase(k) removes the binding of k and nothing else:
\* every other name keeps its value and is the key of exactly one node,
\* also when the re-insertion of the erased node's subtrees runs the
\* collector.
EraseKeepsOthers ==
    (~Stuck(State) /\ TreeIntact(State)) =>
        \A key \in StackCells :
            type[key] = "symbol" =>
                LET r == globals_tree_erase(Entry, key)
                IN  r.fatal \/ ErasedExactly(State, key, r)

\* The same of the calls that run no collection.
EraseKeepsOthersNoGc ==
    (~Stuck(State) /\ TreeIntact(State)) =>
        \A key \in StackCells :
            type[key] = "symbol" =>
                LET r == globals_tree_erase(Entry, key)
                IN  r.fatal \/ r.gc_runs > 0 \/ ErasedExactly(State, key, r)

\* ---- a traversal that leaves the tree alone ---------------------------------
\* Trees of up to three bindings, traversed by the host.
TraversePoolSize == 18
InitTraverse == InstallInit(InitState(TraversePoolSize))

\* The host binds a name as init does (lisp.cpp 2326): set_var(name, nil).
SetVarName ==
    LET Bind(y) ==
            IF Stuck(y.s) THEN y.s
            ELSE IF y.v = y.s.oom_ THEN Undefined(y.s)
            ELSE set_var(y.s, y.v, y.s.nil_)
    IN  /\ CanCall
        /\ \E name \in Names \ {<<>>} :
              Return(Bind(make_symbol(Entry, HostPtr(name),
                                      "requires_intern")),
                     NULL)

NextTraverse == SetVarName \/ Traverse
SpecTraverse == InitTraverse /\ [][NextTraverse]_vars

\* The tree the traversal started from was intact.
TraversedIntact ==
    LET p == call.pre
        nodes == NodesOf(p, p.globals_tree_, Cardinality(Cells))
    IN  /\ p.globals_tree_ = p.nil_ \/ IsKeyedNode(p, p.globals_tree_)
        /\ \A n \in nodes :
              /\ p.alive[n] /\ p.alive[p.car[n]] /\ p.alive[p.cdr[n]]
              /\ \A child \in {left_subtree(p, n), right_subtree(p, n)} :
                    child = p.nil_ \/ IsKeyedNode(p, child)
        /\ Cardinality(nodes) = Cardinality({p.car[n] : n \in nodes})

\* C23: globals_tree_traverse, started on a tree of live nodes with a
\* visitor that does not modify the tree, calls the visitor exactly once for
\* every binding, returns, and leaves every link of the tree as it was and
\* the pool untouched (no cell allocated or freed).
TraverseVisitsOnce ==
    (call.name = "traverse" /\ TraversedIntact) =>
        LET p == call.pre
            nodes == NodesOf(p, p.globals_tree_, Cardinality(Cells))
        IN  /\ ~ub /\ ~hung
            /\ Len(call.visited) = Cardinality(nodes)
            /\ SeqRange(call.visited) = {p.car[n] : n \in nodes}
            /\ car = p.car /\ cdr = p.cdr
            /\ alive = p.alive /\ type = p.type
            /\ value_pool = p.value_pool

\* Three bindings, the root with a left subtree of two nodes: the traversal
\* has threaded both to their successors, removed the threads, and visited
\* the root last.
TraverseVisitsOnceWitness ==
    /\ call.name = "traverse" /\ TraversedIntact /\ ~Stuck(State)
    /\ Len(call.visited) = 3
    /\ left_subtree(State, globals_tree_) # nil_
    /\ left_subtree(State, left_subtree(State, globals_tree_)) # nil_
    /\ right_subtree(State, left_subtree(State, globals_tree_)) = nil_
    /\ call.visited[3] = car[globals_tree_]

\* ---- self tail calls with another argc ------------------------------------
\* The host has called a bytecode function whose body is PushThis,
\* TailCall 1, Ret with an argc other than 1: the tail call's target is the
\* running function and its argc differs from the frame's.
MismatchedSelfTailCall ==
    /\ call.name = "funcall" /\ call.target = "lisp_bytecode_function"
    /\ call.argc # 1
    /\ call.argc <= call.size - 1
    /\ HasBuffer(State, cdr[car[call.obj]])
    /\ LET data == scratch[val[cdr[car[call.obj]]]].data
       IN  /\ data[1] = PushThisOp
           /\ data[2] = TailCallOp
           /\ data[3] = 1

\* C25: a TailCall whose target is the running function but whose argc
\* differs from the argc of the running frame is executed like a Funcall
\* with that argc; vm_execute does not stop making progress on it.
SelfTailCallMakesProgress == MismatchedSelfTailCall => ~hung

RECURSIVE CStrLen(_, _)
CStrLen(data, off) ==
    IF off >= Len(data) \/ data[off + 1] = 0 THEN 0
    ELSE 1 + CStrLen(data, off + 1)

\* The live string cells whose buffer is a live data-buffer cell.
PackedStrings ==
    {c \in Cells : /\ alive[c] /\ type[c] = "string"
                   /\ alive[car[c]] /\ HasBuffer(State, car[c])}

\* C29: the byte ranges, offset through terminating NUL, of distinct string
\* cells packed into one buffer never overlap, so that no make_string
\* changes the contents of a string made before it, an empty one included.
PackedStringsDisjoint ==
    ~Stuck(State) =>
        \A c1, c2 \in PackedStrings :
            (c1 # c2 /\ car[c1] = car[c2]) =>
                LET data == scratch[val[car[c1]]].data
                IN  \/ val[c1] + CStrLen(data, val[c1]) < val[c2]
                    \/ val[c2] + CStrLen(data, val[c2]) < val[c1]

\* ---- a module of relocatable instructions is loaded ----------------------
LoadModuleInstructions ==
    /\ CanPush
    /\ calls < MaxCalls
    /\ \E module \in Modules :
          LET r == load_module_instructions(Entry, module)
          IN  Install([r.s EXCEPT
                         !.call = [name |-> "load_module",
                                   symbols |-> module.symbols,
                                   code |-> module.code,
                                   loaded |-> r.v,
                                   size |-> Len(operand_stack)],
                         !.calls = calls + 1, !.ret = NULL])

NextModule == LoadModuleInstructions
SpecModule == InitFuncall /\ [][NextModule]_vars

\* The position of the outermost Ret: the first Ret that as many Rets as
\* PushLambdas precede; 0 when the bytecode has none.
CountOp(code, op, n) == Cardinality({i \in 1..n : code[i].op = op})

OutermostRet(code) ==
    LET Closing ==
            {i \in 1..Len(code) :
                /\ code[i].op = "Ret"
                /\ CountOp(code, "PushLambda", i - 1)
                      = CountOp(code, "Ret", i - 1)}
    IN  IF Closing = {} THEN 0
        ELSE CHOOSE i \in Closing : \A j \in Closing : i <= j

\* C26: after load_module every relocatable instruction before the outermost
\* Ret, those of nested PushLambda bodies included, is its non-relocatable
\* opcode with the intern-arena offset of the name at its symbol index as
\* operand; every other instruction, and every instruction after the
\* outermost Ret, is as it was in the module.
LoadModuleRelocates ==
    (call.name = "load_module" /\ ~Stuck(State)) =>
        LET code == call.code
            out == call.loaded
            end == OutermostRet(code)
        IN  /\ end > 0
            /\ Len(out) = Len(code)
            /\ \A i \in 1..Len(code) :
                  IF i < end /\ code[i].op \in Relocatable
                  THEN /\ out[i].op = NonRelocatable(code[i].op)
                       /\ out[i].operand >= 0
                       /\ out[i].operand < string_intern_pos_
                       /\ ArenaStr(interns_, out[i].operand)
                             = call.symbols[code[i].operand + 1]
                  ELSE out[i] = code[i]

\* A module with a relocatable instruction inside a lambda, one after the
\* lambda and one after the outermost Ret has been loaded.
LoadModuleRelocatesWitness ==
    /\ call.name = "load_module" /\ ~Stuck(State)
    /\ OutermostRet(call.code) > 0
    /\ \E i \in 1..Len(call.code) :
          /\ i < OutermostRet(call.code)
          /\ call.code[i].op \in Relocatable
          /\ CountOp(call.code, "PushLambda", i - 1)
                > CountOp(call.code, "Ret", i - 1)
    /\ \E i \in 1..Len(call.code) :
          /\ i > OutermostRet(call.code)
          /\ call.code[i].op \in Relocatable
====
